---- MODULE Spec2Model ----
(***************************************************************************)
(* Trip analytics of obd-report: the CSV importer, the Trip Aggregator     *)
(* (TripAnalytics), the Event Detector (DrivingBehaviorAnalytics) and the  *)
(* request handlers that run them against the store.                      *)
(*                                                                         *)
(* Units.  Python floats are carried as exact integers in fixed units:     *)
(*   time, durations      tenths of a second  (3.0 s = 30, 5.0 s = 50)     *)
(*   speed                mph                                              *)
(*   distance             mph * tenths of a second (1 mile = 36000)        *)
(*   fuel                 gal/hr * tenths of a second (1 gal = 36000)      *)
(*   acceleration         hundredths of g     (0.35 g = 35)                *)
(* A mean is carried as a reduced fraction <<num, den>>.                   *)
(***************************************************************************)
EXTENDS Integers, Sequences, FiniteSets, TLC

VARIABLES
    telemetry,        \* the trip's Telemetry rows as SELECT ... ORDER BY time returns them
    trip,             \* the committed Trip row (exists flag and the six analytics fields)
    driving_events,   \* the committed DrivingEvent rows of the trip, in insertion order
    returned_events,  \* the list the latest detect_events call returned
    next_event_id,    \* stands for uuid.uuid4(): a fresh id per DrivingEvent
    pc,               \* position of the request in flight: "none", "calc", "detect", "idle"
    calc_runs,        \* calculate_all calls committed so far
    detect_runs,      \* detect_events calls committed so far
    first_run,        \* the Trip row as the first calculate_all left it
    seen,             \* what the latest GET /trips/{id}/summary read
    csv_rows,         \* the data rows of the uploaded CSV file
    trip_stats,       \* the Trip row's columns that parse_and_store computes
    advanced          \* the response of the latest GET /trips/{id}/advanced

vars == <<telemetry, trip, driving_events, returned_events, next_event_id, pc,
          calc_runs, detect_runs, first_run, seen, csv_rows, trip_stats,
          advanced>>

----
(* Bounds of the model *)

\* rows of an uploaded CSV file
MaxRows == 2
\* POST /trips/{id}/analyze requests after the upload
MaxAnalyze == 2
\* samples of a stored trip in the specifications of the single analyses
MaxSamples == 4
MaxFuelSamples == 3
MaxAccelSamples == 3
MaxIdleSamples == 4
MaxEventSamples == 3
MaxCruiseSamples == 4
MaxSpeedSamples == 3
MaxThrottleRows == 3
\* samples of a stored trip in the specification of the correlation
MaxCorrSamples == 102
\* samples of a stored trip whose set-speed column holds text cells
MaxTextSamples == 3
\* samples of a stored trip that may have no sample at all
MaxEmptySamples == 2
\* samples of a stored trip in the specification of stop-and-go traffic
MaxStopGoSamples == 4
\* samples of a stored trip in the specification of optimal cruising
MaxOptimalSamples == 6
\* samples of a stored trip whose cruise status may be a number
MaxFlagSamples == 3
\* tenths of a second between the rows of an uploaded CSV file
CsvPeriod == 30

----
(* Optional[float]: None is <<>>, a value v is <<v>> *)

None == <<>>
Some(v) == <<v>>
Val(x) == x[1]
\* Python truth value of an Optional[float]: None and 0.0 are false
Truthy(x) == x # None /\ Val(x) # 0

\* a value of the sensors JSONB mapping: absent/null, a string, or a number
Missing == [kind |-> "missing", text |-> "", number |-> 0]
Text(s) == [kind |-> "text", text |-> s, number |-> 0]
Number(n) == [kind |-> "number", text |-> "", number |-> n]
\* Python truth value of sensors.get(key)
SensorTruthy(v) ==
    \/ v.kind = "text" /\ v.text # ""
    \/ v.kind = "number" /\ v.number # 0

RECURSIVE GCD(_, _)
GCD(a, b) == IF b = 0 THEN a ELSE GCD(b, a % b)
\* the float a / b, for a > 0 and b > 0, as a reduced fraction <<num, den>>
Fraction(a, b) == <<a \div GCD(a, b), b \div GCD(a, b)>>

RECURSIVE SumSeq(_)
SumSeq(s) == IF s = <<>> THEN 0 ELSE Head(s) + SumSeq(Tail(s))

\* the largest member of a non-empty set of integers
Max(S) == CHOOSE x \in S : \A y \in S : y <= x

RECURSIVE FoldRange(_, _, _, _, _)
\* the iterations lo..hi of a Python for loop over s, in order: st is the
\* loop's local variables.  The range is split in two so that a long
\* sequence needs few nested evaluations, and the state after the first half
\* is computed (half = half) before the second half starts
FoldRange(Step(_, _), st, s, lo, hi) ==
    IF lo > hi THEN st
    ELSE IF lo = hi THEN Step(st, s[lo])
    ELSE LET mid == (lo + hi) \div 2
             half == FoldRange(Step, st, s, lo, mid)
         IN  IF half = half THEN FoldRange(Step, half, s, mid + 1, hi)
             ELSE half

\* a Python for loop over s[i..]
Fold(Step(_, _), st, s, i) == FoldRange(Step, st, s, i, Len(s))

----
(* TripAnalytics *)

IDLE_SPEED_THRESHOLD == 2
STOP_DURATION_THRESHOLD == 30

\* a slip: prev_time only advances on samples that have a speed
DistanceStepSkipping(st, point) ==
    IF st.prev_time # None /\ point.speed_mph # None
    THEN [total_distance |->
             st.total_distance
               + Val(point.speed_mph) * (point.time - Val(st.prev_time)),
          prev_time |-> Some(point.time)]
    ELSE [total_distance |-> st.total_distance,
          prev_time |-> IF st.prev_time = None THEN Some(point.time)
                        ELSE st.prev_time]

DistanceStep(st, point) ==
    [total_distance |->
        IF st.prev_time # None /\ point.speed_mph # None
        THEN st.total_distance
               + Val(point.speed_mph) * (point.time - Val(st.prev_time))
        ELSE st.total_distance,
     prev_time |-> Some(point.time)]

_calculate_distance(telemetry_points) ==
    Fold(DistanceStep, [total_distance |-> 0, prev_time |-> None],
         telemetry_points, 1).total_distance

\* point.gps_speed_mph if point.gps_speed_mph else point.speed_mph
SelectSpeed(point) ==
    IF Truthy(point.gps_speed_mph) THEN point.gps_speed_mph ELSE point.speed_mph

\* a slip: a stop is counted only when the run exceeds the threshold
IdleStepStrict(st, point) ==
    IF st.prev_time = None
    THEN [st EXCEPT !.prev_time = Some(point.time)]
    ELSE
      LET time_diff == point.time - Val(st.prev_time)
          speed == SelectSpeed(point)
      IN  IF speed # None /\ Val(speed) < IDLE_SPEED_THRESHOLD
          THEN IF Truthy(point.engine_rpm) /\ Val(point.engine_rpm) > 0
               THEN LET dur == st.current_stop_duration + time_diff
                        counts == ~st.in_stop /\ dur > STOP_DURATION_THRESHOLD
                    IN  [st EXCEPT !.idle_time = @ + time_diff,
                                   !.current_stop_duration = dur,
                                   !.stop_count = IF counts THEN @ + 1 ELSE @,
                                   !.in_stop = IF counts THEN TRUE ELSE @,
                                   !.prev_time = Some(point.time)]
               ELSE [st EXCEPT !.current_stop_duration = 0,
                               !.in_stop = FALSE,
                               !.prev_time = Some(point.time)]
          ELSE [st EXCEPT !.moving_time = @ + time_diff,
                          !.current_stop_duration = 0,
                          !.in_stop = FALSE,
                          !.prev_time = Some(point.time)]

\* a slip: the gap of an engine-off sample is added to moving_time
IdleStepEngineOffMoving(st, point) ==
    IF st.prev_time = None
    THEN [st EXCEPT !.prev_time = Some(point.time)]
    ELSE
      LET time_diff == point.time - Val(st.prev_time)
          speed == SelectSpeed(point)
      IN  IF /\ speed # None /\ Val(speed) < IDLE_SPEED_THRESHOLD
             /\ Truthy(point.engine_rpm) /\ Val(point.engine_rpm) > 0
          THEN LET dur == st.current_stop_duration + time_diff
                   counts == ~st.in_stop /\ dur >= STOP_DURATION_THRESHOLD
               IN  [st EXCEPT !.idle_time = @ + time_diff,
                              !.current_stop_duration = dur,
                              !.stop_count = IF counts THEN @ + 1 ELSE @,
                              !.in_stop = IF counts THEN TRUE ELSE @,
                              !.prev_time = Some(point.time)]
          ELSE [st EXCEPT !.moving_time = @ + time_diff,
                          !.current_stop_duration = 0,
                          !.in_stop = FALSE,
                          !.prev_time = Some(point.time)]

\* a slip: the gap of every sample is added to moving_time, the idle ones too
IdleStepAlsoMoving(st, point) ==
    IF st.prev_time = None
    THEN [st EXCEPT !.prev_time = Some(point.time)]
    ELSE
      LET time_diff == point.time - Val(st.prev_time)
          speed == SelectSpeed(point)
      IN  IF speed # None /\ Val(speed) < IDLE_SPEED_THRESHOLD
          THEN IF Truthy(point.engine_rpm) /\ Val(point.engine_rpm) > 0
               THEN LET dur == st.current_stop_duration + time_diff
                        counts == ~st.in_stop /\ dur >= STOP_DURATION_THRESHOLD
                    IN  [st EXCEPT !.idle_time = @ + time_diff,
                                   !.moving_time = @ + time_diff,
                                   !.current_stop_duration = dur,
                                   !.stop_count = IF counts THEN @ + 1 ELSE @,
                                   !.in_stop = IF counts THEN TRUE ELSE @,
                                   !.prev_time = Some(point.time)]
               ELSE [st EXCEPT !.current_stop_duration = 0,
                               !.in_stop = FALSE,
                               !.prev_time = Some(point.time)]
          ELSE [st EXCEPT !.moving_time = @ + time_diff,
                          !.current_stop_duration = 0,
                          !.in_stop = FALSE,
                          !.prev_time = Some(point.time)]

\* a slip: a stop needs 30 seconds of idling instead of 3
IdleStepLongStop(st, point) ==
    IF st.prev_time = None
    THEN [st EXCEPT !.prev_time = Some(point.time)]
    ELSE
      LET time_diff == point.time - Val(st.prev_time)
          speed == SelectSpeed(point)
      IN  IF speed # None /\ Val(speed) < IDLE_SPEED_THRESHOLD
          THEN IF Truthy(point.engine_rpm) /\ Val(point.engine_rpm) > 0
               THEN LET dur == st.current_stop_duration + time_diff
                        counts == /\ ~st.in_stop
                                  /\ dur >= 10 * STOP_DURATION_THRESHOLD
                    IN  [st EXCEPT !.idle_time = @ + time_diff,
                                   !.current_stop_duration = dur,
                                   !.stop_count = IF counts THEN @ + 1 ELSE @,
                                   !.in_stop = IF counts THEN TRUE ELSE @,
                                   !.prev_time = Some(point.time)]
               ELSE [st EXCEPT !.current_stop_duration = 0,
                               !.in_stop = FALSE,
                               !.prev_time = Some(point.time)]
          ELSE [st EXCEPT !.moving_time = @ + time_diff,
                          !.current_stop_duration = 0,
                          !.in_stop = FALSE,
                          !.prev_time = Some(point.time)]

IdleStep(st, point) ==
    IF st.prev_time = None
    THEN [st EXCEPT !.prev_time = Some(point.time)]
    ELSE
      LET time_diff == point.time - Val(st.prev_time)
          speed == SelectSpeed(point)
      IN  IF speed # None /\ Val(speed) < IDLE_SPEED_THRESHOLD
          THEN IF Truthy(point.engine_rpm) /\ Val(point.engine_rpm) > 0
               THEN LET dur == st.current_stop_duration + time_diff
                        counts == ~st.in_stop /\ dur >= STOP_DURATION_THRESHOLD
                    IN  [st EXCEPT !.idle_time = @ + time_diff,
                                   !.current_stop_duration = dur,
                                   !.stop_count = IF counts THEN @ + 1 ELSE @,
                                   !.in_stop = IF counts THEN TRUE ELSE @,
                                   !.prev_time = Some(point.time)]
               ELSE [st EXCEPT !.current_stop_duration = 0,
                               !.in_stop = FALSE,
                               !.prev_time = Some(point.time)]
          ELSE [st EXCEPT !.moving_time = @ + time_diff,
                          !.current_stop_duration = 0,
                          !.in_stop = FALSE,
                          !.prev_time = Some(point.time)]

_calculate_idle_and_stops(telemetry_points) ==
    Fold(IdleStep,
         [idle_time |-> 0, moving_time |-> 0, stop_count |-> 0,
          current_stop_duration |-> 0, prev_time |-> None, in_stop |-> FALSE],
         telemetry_points, 1)

\* a slip: every defined instant_mpg is averaged, positive or not
FuelStepAllValues(st, point) ==
    [mpg_values |->
        IF point.instant_mpg # None
        THEN Append(st.mpg_values, Val(point.instant_mpg))
        ELSE st.mpg_values,
     total_fuel |->
        IF Truthy(point.fuel_rate_gal_hr) /\ st.prev_time # None
        THEN st.total_fuel
               + Val(point.fuel_rate_gal_hr) * (point.time - Val(st.prev_time))
        ELSE st.total_fuel,
     prev_time |-> Some(point.time)]

FuelStep(st, point) ==
    [mpg_values |->
        IF Truthy(point.instant_mpg) /\ Val(point.instant_mpg) > 0
        THEN Append(st.mpg_values, Val(point.instant_mpg))
        ELSE st.mpg_values,
     total_fuel |->
        IF Truthy(point.fuel_rate_gal_hr) /\ st.prev_time # None
        THEN st.total_fuel
               + Val(point.fuel_rate_gal_hr) * (point.time - Val(st.prev_time))
        ELSE st.total_fuel,
     prev_time |-> Some(point.time)]

_calculate_fuel_economy(telemetry_points) ==
    LET st == Fold(FuelStep,
                   [mpg_values |-> <<>>, total_fuel |-> 0, prev_time |-> None],
                   telemetry_points, 1)
    IN  [avg_mpg |-> IF st.mpg_values # <<>>
                     THEN Fraction(SumSeq(st.mpg_values), Len(st.mpg_values))
                     ELSE None,
         total_fuel |-> IF st.total_fuel > 0 THEN Some(st.total_fuel) ELSE None]

\* a slip: the new value is added to the stored one instead of replacing it
AccumulateField(old, new) ==
    IF Len(old) = 1 /\ Len(new) = 1 THEN Some(Val(old) + Val(new)) ELSE new

\* the assignment trip.<field> = <value> of calculate_all
SetField(old, new) == new

\* the Trip row calculate_all commits for a non-empty telemetry_points
UpdatedTrip(t, telemetry_points) ==
    LET idle == _calculate_idle_and_stops(telemetry_points)
        fuel == _calculate_fuel_economy(telemetry_points)
    IN  [t EXCEPT
           !.distance_miles =
               SetField(@, Some(_calculate_distance(telemetry_points))),
           !.idle_time_seconds = SetField(@, Some(idle.idle_time)),
           !.moving_time_seconds = SetField(@, Some(idle.moving_time)),
           !.stop_count = SetField(@, Some(idle.stop_count)),
           !.avg_fuel_economy_mpg = SetField(@, fuel.avg_mpg),
           !.total_fuel_used_gal = SetField(@, fuel.total_fuel)]

----
(* DrivingBehaviorAnalytics *)

HARD_ACCEL_THRESHOLD == 35
HARD_BRAKE_THRESHOLD == -45
MIN_IDLE_DURATION == 50

\* DrivingEvent(...): the id is assigned when the list is stored
Event(point, type, severity, acceleration_g, duration_seconds, set_speed) ==
    [id |-> 0,
     event_time |-> point.time,
     event_type |-> type,
     severity |-> severity,
     latitude |-> point.latitude,
     longitude |-> point.longitude,
     speed_mph |-> point.speed_mph,
     acceleration_g |-> acceleration_g,
     throttle_position |-> IF acceleration_g # None
                           THEN point.throttle_position_pct ELSE None,
     duration_seconds |-> duration_seconds,
     set_speed |-> set_speed]

\* a slip: the thresholds are inclusive
ClassifyAccelerationInclusive(a) ==
    IF a >= HARD_ACCEL_THRESHOLD
    THEN [event_type |-> Some("hard_accel"),
          severity |-> IF a >= 50 THEN Some("high")
                       ELSE IF a >= 40 THEN Some("medium") ELSE Some("low")]
    ELSE IF a <= HARD_BRAKE_THRESHOLD
    THEN [event_type |-> Some("hard_brake"),
          severity |-> IF a <= -60 THEN Some("high")
                       ELSE IF a <= -50 THEN Some("medium") ELSE Some("low")]
    ELSE [event_type |-> None, severity |-> None]

\* event_type and severity of one acceleration_g reading
ClassifyAcceleration(a) ==
    IF a > HARD_ACCEL_THRESHOLD
    THEN [event_type |-> Some("hard_accel"),
          severity |-> IF a > 50 THEN Some("high")
                       ELSE IF a > 40 THEN Some("medium") ELSE Some("low")]
    ELSE IF a < HARD_BRAKE_THRESHOLD
    THEN [event_type |-> Some("hard_brake"),
          severity |-> IF a < -60 THEN Some("high")
                       ELSE IF a < -50 THEN Some("medium") ELSE Some("low")]
    ELSE [event_type |-> None, severity |-> None]

AccelStep(events, point) ==
    IF Truthy(point.acceleration_g)
    THEN LET c == ClassifyAcceleration(Val(point.acceleration_g))
         IN  IF c.event_type # None
             THEN Append(events,
                         Event(point, Val(c.event_type), c.severity,
                               point.acceleration_g, None, Missing))
             ELSE events
    ELSE events

_detect_acceleration_events(telemetry_points) ==
    Fold(AccelStep, <<>>, telemetry_points, 1)

\* is_idle of _detect_idle_events
IsIdlePoint(point) ==
    LET speed == SelectSpeed(point)
    IN  /\ speed # None
        /\ Val(speed) < IDLE_SPEED_THRESHOLD
        /\ Truthy(point.engine_rpm)
        /\ Val(point.engine_rpm) > 0

\* one iteration of the loop of _detect_idle_events
IdleEventStep(st, point) ==
    LET is_idle == IsIdlePoint(point)
    IN  IF is_idle /\ st.idle_start_point = None
        THEN [st EXCEPT !.idle_start_point = Some(point),
                        !.idle_duration = 0,
                        !.prev_time = Some(point.time)]
        ELSE IF is_idle /\ st.idle_start_point # None /\ st.prev_time # None
        THEN [st EXCEPT !.idle_duration = @ + (point.time - Val(st.prev_time)),
                        !.prev_time = Some(point.time)]
        ELSE IF ~is_idle /\ st.idle_start_point # None
        THEN [st EXCEPT
                !.events =
                    IF st.idle_duration >= MIN_IDLE_DURATION
                    THEN @ \o
                         << Event(Val(st.idle_start_point), "idle_start", None,
                                  None, Some(st.idle_duration), Missing),
                            Event(point, "idle_end", None, None,
                                  Some(st.idle_duration), Missing) >>
                    ELSE @,
                !.idle_start_point = None,
                !.idle_duration = 0,
                !.prev_time = Some(point.time)]
        ELSE [st EXCEPT !.prev_time = Some(point.time)]

\* the loop's local variables when the loop of _detect_idle_events ends
IdleEventLoop(telemetry_points) ==
    Fold(IdleEventStep,
         [events |-> <<>>, idle_start_point |-> None,
          idle_duration |-> 0, prev_time |-> None],
         telemetry_points, 1)

\* a slip: a run still open after the last sample is flushed like a closed one
DetectIdleEventsFlushing(telemetry_points) ==
    LET st == IdleEventLoop(telemetry_points)
        last == telemetry_points[Len(telemetry_points)]
    IN  IF st.idle_start_point # None /\ st.idle_duration >= MIN_IDLE_DURATION
        THEN st.events \o
             << Event(Val(st.idle_start_point), "idle_start", None, None,
                      Some(st.idle_duration), Missing),
                Event(last, "idle_end", None, None,
                      Some(st.idle_duration), Missing) >>
        ELSE st.events

_detect_idle_events(telemetry_points) ==
    IdleEventLoop(telemetry_points).events

\* a slip: the detector looks at the status only and ignores the set speed
IsCruiseActiveStatusOnly(point) ==
    point.sensors.status_of_the_cruise_control_no_or_yes = Text("Yes")

\* is_cruise_active of _detect_cruise_events
IsCruiseActive(point) ==
    \/ point.sensors.status_of_the_cruise_control_no_or_yes = Text("Yes")
    \/ SensorTruthy(point.sensors.cruise_control_vehicle_speed)

\* a slip: cruise_active is not set when the cruise engages
CruiseStepNeverActive(st, point) ==
    LET is_cruise_active == IsCruiseActive(point)
    IN  IF is_cruise_active /\ ~st.cruise_active
        THEN [events |->
                 Append(st.events,
                        Event(point, "cruise_engage", None, None, None,
                              point.sensors.cruise_control_vehicle_speed)),
              cruise_active |-> FALSE,
              cruise_start_point |-> Some(point)]
        ELSE st

\* a slip: the engage sample is remembered only for the first engagement
CruiseStepFirstEngage(st, point) ==
    LET is_cruise_active == IsCruiseActive(point)
    IN  IF is_cruise_active /\ ~st.cruise_active
        THEN [events |->
                 Append(st.events,
                        Event(point, "cruise_engage", None, None, None,
                              point.sensors.cruise_control_vehicle_speed)),
              cruise_active |-> TRUE,
              cruise_start_point |-> IF st.cruise_start_point = None
                                     THEN Some(point)
                                     ELSE st.cruise_start_point]
        ELSE IF ~is_cruise_active /\ st.cruise_active
        THEN [events |->
                 Append(st.events,
                        Event(point, "cruise_disengage", None, None,
                              Some(point.time - Val(st.cruise_start_point).time),
                              Missing)),
              cruise_active |-> FALSE,
              cruise_start_point |-> st.cruise_start_point]
        ELSE st

CruiseStep(st, point) ==
    LET is_cruise_active == IsCruiseActive(point)
    IN  IF is_cruise_active /\ ~st.cruise_active
        THEN [events |->
                 Append(st.events,
                        Event(point, "cruise_engage", None, None, None,
                              point.sensors.cruise_control_vehicle_speed)),
              cruise_active |-> TRUE,
              cruise_start_point |-> Some(point)]
        ELSE IF ~is_cruise_active /\ st.cruise_active
        THEN [events |->
                 Append(st.events,
                        Event(point, "cruise_disengage", None, None,
                              Some(IF st.cruise_start_point # None
                                   THEN point.time - Val(st.cruise_start_point).time
                                   ELSE 0),
                              Missing)),
              cruise_active |-> FALSE,
              cruise_start_point |-> st.cruise_start_point]
        ELSE st

_detect_cruise_events(telemetry_points) ==
    Fold(CruiseStep,
         [events |-> <<>>, cruise_active |-> FALSE, cruise_start_point |-> None],
         telemetry_points, 1).events

\* the list detect_events builds: the three detectors' lists, extended in turn
DetectedEvents(telemetry_points) ==
    _detect_acceleration_events(telemetry_points)
      \o _detect_idle_events(telemetry_points)
      \o _detect_cruise_events(telemetry_points)

\* uuid.uuid4() of each event: ids base+1, base+2, ...
WithIds(events, base) ==
    [i \in 1..Len(events) |-> [events[i] EXCEPT !.id = base + i]]

----
(* AdvancedAnalytics *)

\* the buckets of analyze_speed_ranges, in the order the loop tries them
RangeNames == <<"stopped", "city", "suburban", "highway">>

SpeedRanges ==
    [stopped |-> [min |-> 0, max |-> 2],
     city |-> [min |-> 2, max |-> 35],
     suburban |-> [min |-> 35, max |-> 55],
     highway |-> [min |-> 55, max |-> 150]]

\* the first bucket whose test accepts the speed, <<>> if none does
RangeOf(InRange(_, _), speed) ==
    LET hits == SelectSeq(RangeNames, LAMBDA name : InRange(name, speed))
    IN  IF hits = <<>> THEN <<>> ELSE <<Head(hits)>>

\* a slip: the upper bound of a bucket is inclusive
InRangeInclusive(name, speed) ==
    SpeedRanges[name].min <= speed /\ speed <= SpeedRanges[name].max

\* range_data["min"] <= point.speed_mph < range_data["max"]
InRange(name, speed) ==
    SpeedRanges[name].min <= speed /\ speed < SpeedRanges[name].max

\* a slip: the bucket is decided by the speed of the earlier sample of the pair
SpeedRangeStepEarlier(st, point) ==
    IF st.prev_time # None /\ st.prev_speed # None /\ point.speed_mph # None
    THEN LET time_diff == point.time - Val(st.prev_time)
             hit == RangeOf(InRange, Val(st.prev_speed))
         IN  [time |-> [name \in DOMAIN st.time |->
                           IF hit = <<name>> THEN st.time[name] + time_diff
                           ELSE st.time[name]],
              distance |-> [name \in DOMAIN st.distance |->
                               IF hit = <<name>>
                               THEN st.distance[name]
                                      + Val(point.speed_mph) * time_diff
                               ELSE st.distance[name]],
              prev_time |-> Some(point.time),
              prev_speed |-> point.speed_mph]
    ELSE [time |-> st.time, distance |-> st.distance,
          prev_time |-> Some(point.time), prev_speed |-> point.speed_mph]

SpeedRangeStep(st, point) ==
    IF st.prev_time # None /\ point.speed_mph # None
    THEN LET time_diff == point.time - Val(st.prev_time)
             hit == RangeOf(InRange, Val(point.speed_mph))
         IN  [time |-> [name \in DOMAIN st.time |->
                           IF hit = <<name>> THEN st.time[name] + time_diff
                           ELSE st.time[name]],
              distance |-> [name \in DOMAIN st.distance |->
                               IF hit = <<name>>
                               THEN st.distance[name]
                                      + Val(point.speed_mph) * time_diff
                               ELSE st.distance[name]],
              prev_time |-> Some(point.time)]
    ELSE [st EXCEPT !.prev_time = Some(point.time)]

\* analyze_speed_ranges: per bucket its time, distance and percentage
analyze_speed_ranges(telemetry_points) ==
    LET zero == [name \in {RangeNames[i] : i \in 1..Len(RangeNames)} |-> 0]
        st == Fold(SpeedRangeStep,
                   [time |-> zero, distance |-> zero, prev_time |-> None],
                   telemetry_points, 1)
        total_time == SumSeq([i \in 1..Len(RangeNames) |->
                                 st.time[RangeNames[i]]])
    IN  [name \in DOMAIN st.time |->
            [time |-> st.time[name],
             distance |-> st.distance[name],
             percentage |-> IF total_time > 0
                            THEN Fraction(st.time[name] * 100, total_time)
                            ELSE <<0, 1>>]]

\* the result {} of an analysis without data
EmptyResult == [empty |-> TRUE]

\* the bucket of one throttle value: the elif chain of analyze_throttle_patterns
ThrottleBucket(throttle) ==
    IF throttle < 30 THEN "gentle"
    ELSE IF throttle < 60 THEN "moderate"
    ELSE IF throttle < 80 THEN "aggressive"
    ELSE "very_aggressive"

_calculate_aggressiveness_score(distribution, total) ==
    IF total = 0 THEN <<0, 1>>
    ELSE Fraction(distribution["gentle"] * 0 + distribution["moderate"] * 30
                    + distribution["aggressive"] * 70
                    + distribution["very_aggressive"] * 100,
                  total)

\* analyze_throttle_patterns (without avg_pedal_position and avg_change_rate);
\* the query keeps the rows whose throttle_position_pct is not NULL
analyze_throttle_patterns(stored) ==
    LET telemetry_points ==
            SelectSeq(stored, LAMBDA p : p.throttle_position_pct # None)
        throttle_values ==
            LET kept == SelectSeq(telemetry_points,
                                  LAMBDA p : Truthy(p.throttle_position_pct))
            IN  [i \in 1..Len(kept) |-> Val(kept[i].throttle_position_pct)]
        throttle_distribution ==
            [name \in {"gentle", "moderate", "aggressive", "very_aggressive"} |->
                Len(SelectSeq(throttle_values,
                              LAMBDA t : ThrottleBucket(t) = name))]
        total_samples == Len(throttle_values)
        pct(name) == IF total_samples # 0
                     THEN Fraction(throttle_distribution[name] * 100,
                                   total_samples)
                     ELSE <<0, 1>>
    IN  IF telemetry_points = <<>> THEN EmptyResult
        ELSE [empty |-> FALSE,
              avg_throttle |-> IF throttle_values # <<>>
                               THEN Fraction(SumSeq(throttle_values),
                                             Len(throttle_values))
                               ELSE <<0, 1>>,
              max_throttle |-> IF throttle_values # <<>>
                               THEN Max({throttle_values[i]
                                          : i \in 1..Len(throttle_values)})
                               ELSE 0,
              counts |-> throttle_distribution,
              total_samples |-> total_samples,
              distribution |->
                  [gentle_pct |-> pct("gentle"),
                   moderate_pct |-> pct("moderate"),
                   aggressive_pct |-> pct("aggressive"),
                   very_aggressive_pct |-> pct("very_aggressive")],
              aggressiveness_score |->
                  _calculate_aggressiveness_score(throttle_distribution,
                                                  total_samples)]

\* is_cruise_active of analyze_cruise_control, where it evaluates
CruiseSessionActive(point) ==
    LET status == point.sensors.status_of_the_cruise_control_no_or_yes
        set_speed == point.sensors.cruise_control_vehicle_speed
    IN  \/ status = Number(1)
        \/ status = Text("Yes")
        \/ set_speed.kind = "number" /\ set_speed.number > 0

\* set_speed > 0 raises TypeError when it is reached with a string set_speed
CruiseControlRaises(telemetry_points) ==
    \E i \in 1..Len(telemetry_points) :
        LET status == telemetry_points[i].sensors
                          .status_of_the_cruise_control_no_or_yes
            set_speed == telemetry_points[i].sensors
                             .cruise_control_vehicle_speed
        IN  /\ status # Number(1)
            /\ status # Text("Yes")
            /\ set_speed.kind = "text"
            /\ set_speed.text # ""

\* a slip: a session of exactly 5 seconds is kept
IsSessionInclusive(duration) == duration >= 50

\* duration > 5
IsSession(duration) == duration > 50

\* the cruise_sessions list with the session that ends at end_time, if it counts
WithSession(st, end_time) ==
    LET duration == end_time - Val(st.cruise_start)
    IN  IF IsSession(duration)
        THEN [st EXCEPT
                !.cruise_sessions =
                    Append(@, [start_time |-> Val(st.cruise_start),
                               end_time |-> end_time,
                               duration |-> duration,
                               avg_speed |->
                                   IF st.cruise_speeds # <<>>
                                   THEN Fraction(SumSeq(st.cruise_speeds),
                                                 Len(st.cruise_speeds))
                                   ELSE st.cruise_start_speed,
                               set_speed |-> st.cruise_start_speed]),
                !.total_cruise_time = @ + duration]
        ELSE st

CruiseSessionStep(st, point) ==
    LET is_cruise_active == CruiseSessionActive(point)
        next ==
            IF is_cruise_active /\ st.cruise_start = None
            THEN [st EXCEPT !.cruise_start = Some(point.time),
                            !.cruise_start_speed = point.speed_mph]
            ELSE IF ~is_cruise_active /\ st.cruise_start # None
            THEN [WithSession(st, Val(st.prev_time)) EXCEPT
                    !.cruise_start = None,
                    !.cruise_start_speed = None,
                    !.cruise_speeds = <<>>]
            ELSE IF is_cruise_active /\ Truthy(point.speed_mph)
            THEN [st EXCEPT !.cruise_speeds = Append(@, Val(point.speed_mph))]
            ELSE st
    IN  [next EXCEPT !.prev_time = Some(point.time)]

\* analyze_cruise_control, for rows on which it does not raise
analyze_cruise_control(telemetry_points) ==
    LET looped == Fold(CruiseSessionStep,
                       [cruise_sessions |-> <<>>, cruise_start |-> None,
                        cruise_start_speed |-> None, total_cruise_time |-> 0,
                        cruise_speeds |-> <<>>, prev_time |-> None],
                       telemetry_points, 1)
        st == IF looped.cruise_start # None /\ looped.prev_time # None
              THEN WithSession(looped, Val(looped.prev_time))
              ELSE looped
    IN  [total_cruise_time |-> st.total_cruise_time,
         session_count |-> Len(st.cruise_sessions),
         sessions |-> st.cruise_sessions,
         avg_session_duration |->
             IF st.cruise_sessions # <<>>
             THEN Fraction(st.total_cruise_time, Len(st.cruise_sessions))
             ELSE <<0, 1>>]

\* the smallest member of a non-empty set of integers
Min(S) == CHOOSE x \in S : \A y \in S : x <= y

\* the optimal-cruising test of sample i (1-based) with its look-ahead
\* telemetry_points[i:i+5] (0-based), made only if i < len - 5 (0-based)
IsOptimalCruising(telemetry_points, i) ==
    LET point == telemetry_points[i]
    IN  /\ Truthy(point.speed_mph)
        /\ 50 <= Val(point.speed_mph) /\ Val(point.speed_mph) <= 70
        /\ Truthy(point.throttle_position_pct)
        /\ Val(point.throttle_position_pct) < 40
        /\ Truthy(point.instant_mpg)
        /\ Val(point.instant_mpg) > 30
        /\ i - 1 < Len(telemetry_points) - 5
        /\ LET next_speeds ==
                   { Val(telemetry_points[k].speed_mph) :
                       k \in { j \in i..(i + 4) :
                                 Truthy(telemetry_points[j].speed_mph) } }
           IN  /\ next_speeds # {}
               /\ Max(next_speeds) - Min(next_speeds) < 5

\* a slip: a run of exactly 2 seconds counts
StopAndGoStepInclusive(st, point) ==
    LET next ==
            IF point.speed_mph = None THEN st
            ELSE IF Val(point.speed_mph) < 5
            THEN IF st.stop_and_go_start = None
                 THEN [st EXCEPT !.stop_and_go_start = Some(point.time)]
                 ELSE st
            ELSE IF st.stop_and_go_start # None /\ st.prev_time # None
            THEN [st EXCEPT
                    !.stop_and_go_count =
                        IF Val(st.prev_time) - Val(st.stop_and_go_start) >= 20
                        THEN @ + 1 ELSE @,
                    !.stop_and_go_start = None]
            ELSE st
    IN  [next EXCEPT !.prev_time = Some(point.time)]

\* the stop-and-go part of the loop of analyze_fuel_efficiency_insights
StopAndGoStep(st, point) ==
    LET next ==
            IF point.speed_mph = None THEN st
            ELSE IF Val(point.speed_mph) < 5
            THEN IF st.stop_and_go_start = None
                 THEN [st EXCEPT !.stop_and_go_start = Some(point.time)]
                 ELSE st
            ELSE IF st.stop_and_go_start # None /\ st.prev_time # None
            THEN [st EXCEPT
                    !.stop_and_go_count =
                        IF Val(st.prev_time) - Val(st.stop_and_go_start) > 20
                        THEN @ + 1 ELSE @,
                    !.stop_and_go_start = None]
            ELSE st
    IN  [next EXCEPT !.prev_time = Some(point.time)]

\* analyze_fuel_efficiency_insights (total_time and estimated_time in tenths
\* of a second)
analyze_fuel_efficiency_insights(telemetry_points) ==
    LET heavy_throttle_events ==
            SelectSeq(telemetry_points,
                      LAMBDA p : Truthy(p.throttle_position_pct)
                                   /\ Val(p.throttle_position_pct) > 80)
        indexed == [i \in 1..Len(telemetry_points) |->
                       [i |-> i, point |-> telemetry_points[i]]]
        optimal_cruising_segments ==
            SelectSeq(indexed,
                      LAMBDA x : IsOptimalCruising(telemetry_points, x.i))
        stop_and_go ==
            Fold(StopAndGoStep,
                 [stop_and_go_start |-> None, stop_and_go_count |-> 0,
                  prev_time |-> None],
                 telemetry_points, 1)
    IN  [heavy_throttle_events |->
            [count |-> Len(heavy_throttle_events),
             events |-> SubSeq(heavy_throttle_events, 1,
                               Min({20, Len(heavy_throttle_events)}))],
         optimal_cruising |->
            [count |-> Len(optimal_cruising_segments),
             avg_mpg |->
                 IF optimal_cruising_segments # <<>>
                 THEN Fraction(
                        SumSeq([k \in 1..Len(optimal_cruising_segments) |->
                                  Val(optimal_cruising_segments[k]
                                        .point.instant_mpg)]),
                        Len(optimal_cruising_segments))
                 ELSE <<0, 1>>,
             total_time |-> Len(optimal_cruising_segments) * 1],
         stop_and_go |->
            [event_count |-> stop_and_go.stop_and_go_count,
             estimated_time |-> stop_and_go.stop_and_go_count * 50]]

\* a slip: exactly 10 samples are still too few
HasEnoughSamplesStrict(n) == n > 10

\* the negation of len(telemetry_points) < 10
HasEnoughSamples(n) == n >= 10

CorrelationStep(st, point) ==
    [correlation_points |->
        IF st.prev_speed # None /\ st.prev_time # None
             /\ point.time - Val(st.prev_time) > 0
        THEN Append(st.correlation_points,
                    [throttle |-> Val(point.throttle_position_pct),
                     speed_change |-> Val(point.speed_mph) - Val(st.prev_speed),
                     speed |-> Val(point.speed_mph)])
        ELSE st.correlation_points,
     prev_speed |-> point.speed_mph,
     prev_time |-> Some(point.time)]

\* the Pearson coefficient of two series of equal length n > 0.  With
\* T[i] = n * (t[i] - mean_t) and S[i] = n * (s[i] - mean_s) the float
\* numerator / (denom_t * denom_s) is num / sqrt(denom_t_sq * denom_s_sq),
\* carried as the three integers; it is 0 when denom_t * denom_s is not
\* positive
PearsonCoefficient(throttles, speed_changes) ==
    LET n == Len(throttles)
        T == [i \in 1..n |-> n * throttles[i] - SumSeq(throttles)]
        S == [i \in 1..n |-> n * speed_changes[i] - SumSeq(speed_changes)]
        numerator == SumSeq([i \in 1..n |-> T[i] * S[i]])
        denom_t_sq == SumSeq([i \in 1..n |-> T[i] * T[i]])
        denom_s_sq == SumSeq([i \in 1..n |-> S[i] * S[i]])
    IN  IF denom_t_sq > 0 /\ denom_s_sq > 0
        THEN [num |-> numerator, denom_t_sq |-> denom_t_sq,
              denom_s_sq |-> denom_s_sq]
        ELSE [num |-> 0, denom_t_sq |-> 1, denom_s_sq |-> 1]

\* get_speed_throttle_correlation; the query keeps the rows whose
\* throttle_position_pct and speed_mph are both not NULL
get_speed_throttle_correlation(stored) ==
    LET telemetry_points ==
            SelectSeq(stored, LAMBDA p : p.throttle_position_pct # None
                                           /\ p.speed_mph # None)
        correlation_points ==
            Fold(CorrelationStep,
                 [correlation_points |-> <<>>, prev_speed |-> None,
                  prev_time |-> None],
                 telemetry_points, 1).correlation_points
    IN  IF ~HasEnoughSamples(Len(telemetry_points)) THEN EmptyResult
        ELSE IF Len(correlation_points) > 1
        THEN [empty |-> FALSE,
              correlation_coefficient |->
                  PearsonCoefficient(
                      [i \in 1..Len(correlation_points) |->
                          correlation_points[i].throttle],
                      [i \in 1..Len(correlation_points) |->
                          correlation_points[i].speed_change]),
              sample_points |->
                  SubSeq(correlation_points, 1,
                         Min({100, Len(correlation_points)}))]
        ELSE EmptyResult

----
(* CSVParser.parse_and_store *)

\* an explicit column (Tier 1-3): a blank cell reads as 0, and 0 is stored as NULL
ExplicitColumn(cell) ==
    LET value == IF cell = None THEN 0 ELSE Val(cell)
    IN  IF value # 0 THEN Some(value) ELSE None

\* the vehicle speed column: a blank cell is stored as 0
SpeedColumn(cell) == Some(IF cell = None THEN 0 ELSE Val(cell))

\* a cell of any other column, kept in sensors: a number if float() reads it
\* (0 is stored as null), else the cell's text (a blank cell is stored as null)
SensorColumn(cell) ==
    IF cell.kind = "number"
    THEN IF cell.number # 0 THEN cell ELSE Missing
    ELSE IF cell.kind = "text" /\ cell.text # "" THEN cell ELSE Missing

\* a Telemetry row with only its time set
BlankRow(time) ==
    [time |-> time,
     speed_mph |-> None,
     gps_speed_mph |-> None,
     latitude |-> None,
     longitude |-> None,
     engine_rpm |-> None,
     throttle_position_pct |-> None,
     instant_mpg |-> None,
     fuel_rate_gal_hr |-> None,
     acceleration_g |-> None,
     sensors |-> [status_of_the_cruise_control_no_or_yes |-> Missing,
                  cruise_control_vehicle_speed |-> Missing]]

\* the Telemetry record built from one CSV row
ParseRow(row) ==
    [BlankRow(row.time) EXCEPT
       !.speed_mph = SpeedColumn(row.vehicle_speed),
       !.gps_speed_mph = ExplicitColumn(row.gps_speed),
       !.engine_rpm = ExplicitColumn(row.engine_rpm),
       !.throttle_position_pct = ExplicitColumn(row.absolute_throttle_position),
       !.instant_mpg = ExplicitColumn(row.instant_fuel_economy),
       !.fuel_rate_gal_hr = ExplicitColumn(row.fuel_rate),
       !.acceleration_g = ExplicitColumn(row.acceleration),
       !.sensors.cruise_control_vehicle_speed =
           SensorColumn(row.cruise_control_vehicle_speed)]

ParseRows(rows) == [i \in 1..Len(rows) |-> ParseRow(rows[i])]

\* duration_seconds (max_elapsed, which starts at 0.0) and avg_speed_mph (the
\* mean of the rows' speeds, None without a speed column) of the new Trip row
TripStatistics(telemetry_records) ==
    LET speeds == SelectSeq([i \in 1..Len(telemetry_records) |->
                                telemetry_records[i].speed_mph],
                            LAMBDA x : x # None)
    IN  [duration_seconds |->
            Max({0} \cup {telemetry_records[i].time
                            : i \in 1..Len(telemetry_records)}),
         avg_speed_mph |->
            IF speeds # <<>>
            THEN Fraction(SumSeq([i \in 1..Len(speeds) |-> Val(speeds[i])]),
                          Len(speeds))
            ELSE None]

\* the Trip row parse_and_store creates: the analytics fields start null
NewTrip ==
    [exists |-> TRUE,
     distance_miles |-> None,
     idle_time_seconds |-> None,
     moving_time_seconds |-> None,
     stop_count |-> None,
     avg_fuel_economy_mpg |-> None,
     total_fuel_used_gal |-> None]

NoTrip == [NewTrip EXCEPT !.exists = FALSE]

----
(* The store and the request handlers *)

NotRead == [read |-> FALSE, trip |-> NoTrip, event_count |-> 0,
            calc_runs |-> 0, detect_runs |-> 0, hard_events |-> 0,
            idle_percentage |-> None, efficiency_score |-> None,
            driving_score |-> None]

\* the cells of one CSV row (a blank cell is None)
CsvCells ==
    [vehicle_speed : {Some(0), Some(30)},
     gps_speed : {Some(0)},
     engine_rpm : {Some(0), Some(800)},
     absolute_throttle_position : {None},
     instant_fuel_economy : {None, Some(20)},
     fuel_rate : {Some(2)},
     acceleration : {Some(0), Some(51)},
     cruise_control_vehicle_speed : {Missing}]

\* files of 1..max data rows, logged every CsvPeriod, with cells from Cells
CsvFilesOf(Cells, max) ==
    UNION { { [i \in 1..n |->
                 [time |-> (i - 1) * CsvPeriod,
                  vehicle_speed |-> cells[i].vehicle_speed,
                  gps_speed |-> cells[i].gps_speed,
                  engine_rpm |-> cells[i].engine_rpm,
                  absolute_throttle_position |->
                      cells[i].absolute_throttle_position,
                  instant_fuel_economy |-> cells[i].instant_fuel_economy,
                  fuel_rate |-> cells[i].fuel_rate,
                  acceleration |-> cells[i].acceleration,
                  cruise_control_vehicle_speed |->
                      cells[i].cruise_control_vehicle_speed]]
              : cells \in [1..n -> Cells] }
            : n \in 1..max }

\* uploaded files: 1..MaxRows data rows
CsvFiles == CsvFilesOf(CsvCells, MaxRows)

\* the parser's columns of a trip nobody has uploaded
NoStatistics == [duration_seconds |-> 0, avg_speed_mph |-> None]

\* no GET /trips/{id}/advanced has been answered
NotAsked == [status |-> "none"]

Init ==
    /\ telemetry = <<>>
    /\ trip = NoTrip
    /\ driving_events = <<>>
    /\ returned_events = <<>>
    /\ next_event_id = 0
    /\ pc = "none"
    /\ calc_runs = 0
    /\ detect_runs = 0
    /\ first_run = NoTrip
    /\ seen = NotRead
    /\ csv_rows = <<>>
    /\ trip_stats = NoStatistics
    /\ advanced = NotAsked

\* upload_csv up to the commit of parse_and_store
ParseAndStore ==
    /\ pc = "none"
    /\ \E rows \in CsvFiles :
          /\ csv_rows' = rows
          /\ telemetry' = ParseRows(rows)
          /\ trip_stats' = TripStatistics(ParseRows(rows))
    /\ trip' = NewTrip
    /\ pc' = "calc"
    /\ UNCHANGED <<driving_events, returned_events, next_event_id, calc_runs,
                   detect_runs, first_run, seen, advanced>>

\* a slip: calculate_all without its early return for an empty
\* telemetry_points
CalculateAllAlways ==
    /\ pc = "calc"
    /\ trip.exists
    /\ trip' = UpdatedTrip(trip, telemetry)
    /\ calc_runs' = calc_runs + 1
    /\ first_run' = IF calc_runs = 0 THEN trip' ELSE first_run
    /\ pc' = "detect"
    /\ UNCHANGED <<telemetry, driving_events, returned_events, next_event_id,
                   detect_runs, seen, csv_rows, trip_stats, advanced>>

\* TripAnalytics.calculate_all, called by upload_csv and by analyze_trip
CalculateAll ==
    /\ pc = "calc"
    /\ trip.exists
    /\ IF telemetry = <<>>
       THEN UNCHANGED <<trip, calc_runs, first_run>>
       ELSE /\ trip' = UpdatedTrip(trip, telemetry)
            /\ calc_runs' = calc_runs + 1
            /\ first_run' = IF calc_runs = 0 THEN trip' ELSE first_run
    /\ pc' = "detect"
    /\ UNCHANGED <<telemetry, driving_events, returned_events, next_event_id,
                   detect_runs, seen, csv_rows, trip_stats, advanced>>

\* the rows in the store after detect_events has stored its list
StoreEvents(stored, events) == stored \o events

\* DrivingBehaviorAnalytics.detect_events, called after calculate_all
DetectEvents ==
    /\ pc = "detect"
    /\ LET events == WithIds(DetectedEvents(telemetry), next_event_id)
       IN  /\ returned_events' = events
           /\ driving_events' = StoreEvents(driving_events, events)
           /\ next_event_id' = next_event_id + Len(events)
    /\ detect_runs' = detect_runs + 1
    /\ pc' = "idle"
    /\ UNCHANGED <<telemetry, trip, calc_runs, first_run, seen, csv_rows,
                   trip_stats, advanced>>

\* POST /trips/{id}/analyze up to its call of calculate_all
AnalyzeTrip ==
    /\ pc = "idle"
    /\ trip.exists
    /\ detect_runs <= MaxAnalyze
    /\ pc' = "calc"
    /\ UNCHANGED <<telemetry, trip, driving_events, returned_events,
                   next_event_id, calc_runs, detect_runs, first_run, seen,
                   csv_rows, trip_stats, advanced>>

\* Python truth value of an optional mean: None and 0.0 are false
FractionTruthy(f) == f # None /\ f[1] # 0

\* event_counts.get(type, 0) of get_trip_summary
EventCount(events, type) ==
    Len(SelectSeq(events, LAMBDA e : e.event_type = type))

\* efficiency_score of get_trip_summary: avg_mpg / 30.0 * 100
EfficiencyScore(t, stats) ==
    IF FractionTruthy(t.avg_fuel_economy_mpg)
         /\ FractionTruthy(stats.avg_speed_mph)
    THEN Fraction(t.avg_fuel_economy_mpg[1] * 100,
                  t.avg_fuel_economy_mpg[2] * 30)
    ELSE None

\* a slip: the score is not clamped at 0
DrivingScoreUnclamped(stats, events) ==
    IF stats.duration_seconds > 0
    THEN LET hard_events == EventCount(events, "hard_brake")
                              + EventCount(events, "hard_accel")
         IN  <<100 * stats.duration_seconds - 6000 * hard_events,
               stats.duration_seconds>>
    ELSE None

\* driving_score of get_trip_summary: hard events per minute cost 10 points
\* each (a duration in tenths of a second holds duration / 600 minutes)
DrivingScore(stats, events) ==
    IF stats.duration_seconds > 0
    THEN LET hard_events == EventCount(events, "hard_brake")
                              + EventCount(events, "hard_accel")
             points == 100 * stats.duration_seconds - 6000 * hard_events
         IN  IF points > 0 THEN Fraction(points, stats.duration_seconds)
             ELSE <<0, 1>>
    ELSE None

\* idle_percentage of get_trip_summary
IdlePercentage(t, stats) ==
    IF stats.duration_seconds # 0 /\ Truthy(t.idle_time_seconds)
    THEN Fraction(Val(t.idle_time_seconds) * 100, stats.duration_seconds)
    ELSE None

\* GET /trips/{id}/summary: reads the committed Trip row and its events
GetTripSummary ==
    /\ trip.exists
    /\ seen' = [read |-> TRUE, trip |-> trip,
                event_count |-> Len(driving_events),
                calc_runs |-> calc_runs, detect_runs |-> detect_runs,
                hard_events |-> EventCount(driving_events, "hard_brake")
                                  + EventCount(driving_events, "hard_accel"),
                idle_percentage |-> IdlePercentage(trip, trip_stats),
                efficiency_score |-> EfficiencyScore(trip, trip_stats),
                driving_score |-> DrivingScore(trip_stats, driving_events)]
    /\ UNCHANGED <<telemetry, trip, driving_events, returned_events,
                   next_event_id, pc, calc_runs, detect_runs, first_run,
                   csv_rows, trip_stats, advanced>>

\* the five analyses of get_advanced_analytics, run one after the other; an
\* exception of any of them leaves the handler, which answers 500
AdvancedResponse(stored) ==
    IF CruiseControlRaises(stored)
    THEN [status |-> "error"]
    ELSE [status |-> "ok",
          speed_ranges |-> analyze_speed_ranges(stored),
          throttle_patterns |-> analyze_throttle_patterns(stored),
          cruise_control |-> analyze_cruise_control(stored),
          fuel_insights |-> analyze_fuel_efficiency_insights(stored),
          correlation |-> get_speed_throttle_correlation(stored)]

\* GET /trips/{id}/advanced
GetAdvancedAnalytics ==
    /\ trip.exists
    /\ advanced' = AdvancedResponse(telemetry)
    /\ UNCHANGED <<telemetry, trip, driving_events, returned_events,
                   next_event_id, pc, calc_runs, detect_runs, first_run, seen,
                   csv_rows, trip_stats>>

Next ==
    \/ ParseAndStore
    \/ CalculateAll
    \/ DetectEvents
    \/ AnalyzeTrip
    \/ GetTripSummary

Spec == Init /\ [][Next]_vars

----
(* One upload's analytics over a stored trip: the rows are drawn from a     *)
(* bounded set, then calculate_all and detect_events run as upload_csv      *)
(* runs them.  Stored rows are as parse_and_store leaves them: an explicit  *)
(* column holds NULL or a non-zero number, speed_mph any number, or NULL    *)
(* when the file has no speed column.                                      *)

\* rows built from kinds (rows without time) and the gaps between them
MakeSamples(kinds, gaps) ==
    [i \in 1..Len(kinds) |->
        [kinds[i] EXCEPT !.time = SumSeq([j \in 1..(i - 1) |-> gaps[j + 1]])]]

InitStored(Kinds, Gaps, max) ==
    /\ \E n \in 1..max :
         \E kinds \in [1..n -> Kinds], gaps \in [2..n -> Gaps] :
            telemetry = MakeSamples(kinds, gaps)
    /\ csv_rows = <<>>
    /\ trip_stats = TripStatistics(telemetry)
    /\ advanced = NotAsked
    /\ trip = NewTrip
    /\ driving_events = <<>>
    /\ returned_events = <<>>
    /\ next_event_id = 0
    /\ pc = "calc"
    /\ calc_runs = 0
    /\ detect_runs = 0
    /\ first_run = NoTrip
    /\ seen = NotRead

NextUpload ==
    \/ CalculateAll
    \/ DetectEvents

\* speed, GPS speed and engine RPM vary, in a file with a speed column
AggKinds ==
    { [BlankRow(0) EXCEPT !.speed_mph = k[1], !.gps_speed_mph = k[2],
                          !.engine_rpm = k[3]]
      : k \in { <<Some(0), None, Some(800)>>,
                <<Some(30), Some(1), Some(800)>>,
                <<Some(0), None, None>>,
                <<Some(30), None, Some(800)>>,
                <<Some(2), None, Some(800)>> } }

\* the same in a file without a speed column: speed_mph is NULL in every row
AggKindsNoSpeed ==
    { [BlankRow(0) EXCEPT !.gps_speed_mph = k[1], !.engine_rpm = k[2]]
      : k \in { <<None, Some(800)>>,
                <<Some(1), Some(800)>>,
                <<Some(1), None>>,
                <<Some(30), Some(800)>> } }

AggGaps == {1, 30}

InitAgg ==
    \/ InitStored(AggKinds, AggGaps, MaxSamples)
    \/ InitStored(AggKindsNoSpeed, AggGaps, MaxSamples)

SpecAgg == InitAgg /\ [][NextUpload]_vars

\* speed varies row by row, NULL included
DistKinds ==
    { [BlankRow(0) EXCEPT !.speed_mph = v]
      : v \in {None, Some(0), Some(2), Some(30)} }

InitDist == InitStored(DistKinds, AggGaps, MaxSamples)

SpecDist == InitDist /\ [][NextUpload]_vars

\* instant MPG and fuel rate vary
FuelKinds ==
    { [BlankRow(0) EXCEPT !.instant_mpg = k[1], !.fuel_rate_gal_hr = k[2]]
      : k \in {None, Some(20), Some(30), Some(-5)}
              \X {None, Some(1), Some(-1)} }

FuelGaps == {1, 2}

InitFuel == InitStored(FuelKinds, FuelGaps, MaxFuelSamples)

SpecFuel == InitFuel /\ [][NextUpload]_vars

\* acceleration varies around every threshold
AccelKinds ==
    { [BlankRow(0) EXCEPT !.acceleration_g = a, !.speed_mph = Some(30)]
      : a \in {None} \cup
              { Some(v) : v \in {34, 35, 36, 40, 41, 45, 50, 51,
                                 -44, -45, -46, -50, -51, -60, -61} } }

AccelGaps == {1}

InitAccel == InitStored(AccelKinds, AccelGaps, MaxAccelSamples)

SpecAccel == InitAccel /\ [][NextUpload]_vars

\* idle, engine-off and moving samples around the 5.0 s threshold
IdleKinds ==
    { [BlankRow(0) EXCEPT !.speed_mph = k[1], !.gps_speed_mph = k[2],
                          !.engine_rpm = k[3]]
      : k \in { <<Some(0), None, Some(800)>>,
                <<Some(30), Some(1), Some(800)>>,
                <<Some(0), None, None>>,
                <<Some(30), None, Some(800)>> } }

IdleGaps == {1, 49, 51}

InitIdle == InitStored(IdleKinds, IdleGaps, MaxIdleSamples)

SpecIdle == InitIdle /\ [][NextUpload]_vars

\* samples that feed all three detectors
EventKinds ==
    { [BlankRow(0) EXCEPT
         !.speed_mph = k[1], !.engine_rpm = Some(800),
         !.acceleration_g = k[2],
         !.sensors.status_of_the_cruise_control_no_or_yes = k[3]]
      : k \in {Some(0), Some(30)} \X {None, Some(51)}
              \X {Missing, Text("Yes")} }

EventGaps == {1, 50}

InitEvents == InitStored(EventKinds, EventGaps, MaxEventSamples)

SpecEvents == InitEvents /\ [][NextUpload]_vars

\* cruise status and set speed vary; the two sensors are columns of the file
CruiseKinds ==
    { [BlankRow(0) EXCEPT
         !.speed_mph = Some(60),
         !.sensors.status_of_the_cruise_control_no_or_yes = k[1],
         !.sensors.cruise_control_vehicle_speed = k[2]]
      : k \in { <<Missing, Missing>>,
                <<Text("No"), Missing>>,
                <<Text("Yes"), Missing>>,
                <<Text("Yes"), Number(65)>>,
                <<Text("No"), Number(65)>> } }

CruiseGaps == {1, 50}

InitCruise == InitStored(CruiseKinds, CruiseGaps, MaxCruiseSamples)

\* the upload's analytics and GET /trips/{id}/advanced over a stored trip
NextStored ==
    \/ CalculateAll
    \/ DetectEvents
    \/ GetAdvancedAnalytics

SpecCruise == InitCruise /\ [][NextStored]_vars

\* the cruise status column may hold the number 1, and the set speed may be
\* negative
CruiseFlagKinds ==
    { [BlankRow(0) EXCEPT
         !.speed_mph = Some(60),
         !.sensors.status_of_the_cruise_control_no_or_yes = k[1],
         !.sensors.cruise_control_vehicle_speed = k[2]]
      : k \in { <<Missing, Missing>>,
                <<Number(1), Missing>>,
                <<Text("Yes"), Missing>>,
                <<Text("No"), Number(65)>>,
                <<Text("No"), Number(-5)>> } }

CruiseFlagGaps == {1, 51}

InitCruiseFlag == InitStored(CruiseFlagKinds, CruiseFlagGaps, MaxFlagSamples)

SpecCruiseFlag == InitCruiseFlag /\ [][NextStored]_vars

\* the set-speed column may hold a text cell, which parse_and_store keeps as
\* a string in sensors
CruiseTextKinds ==
    { [BlankRow(0) EXCEPT
         !.speed_mph = Some(60),
         !.sensors.status_of_the_cruise_control_no_or_yes = k[1],
         !.sensors.cruise_control_vehicle_speed = k[2]]
      : k \in { <<Missing, Missing>>,
                <<Missing, Text("N/A")>>,
                <<Text("No"), Text("N/A")>>,
                <<Text("Yes"), Text("N/A")>>,
                <<Text("No"), Number(65)>> } }

InitCruiseText == InitStored(CruiseTextKinds, CruiseGaps, MaxTextSamples)

SpecCruiseText == InitCruiseText /\ [][NextStored]_vars

\* a trip row whose telemetry may be empty: the analyses take whatever rows
\* the store holds for the trip id, none included
InitEmpty ==
    /\ \E n \in 0..MaxEmptySamples :
         \E kinds \in [1..n -> EventKinds], gaps \in [2..n -> EventGaps] :
            telemetry = MakeSamples(kinds, gaps)
    /\ csv_rows = <<>>
    /\ trip_stats = TripStatistics(telemetry)
    /\ advanced = NotAsked
    /\ trip = NewTrip
    /\ driving_events = <<>>
    /\ returned_events = <<>>
    /\ next_event_id = 0
    /\ pc = "calc"
    /\ calc_runs = 0
    /\ detect_runs = 0
    /\ first_run = NoTrip
    /\ seen = NotRead

SpecEmpty == InitEmpty /\ [][NextStored]_vars

\* the speed varies around 5 mph, in gaps around 2.0 s
StopGoKinds ==
    { [BlankRow(0) EXCEPT !.speed_mph = v]
      : v \in {None, Some(4), Some(5)} }

StopGoGaps == {1, 20, 21}

InitStopGo == InitStored(StopGoKinds, StopGoGaps, MaxStopGoSamples)

SpecStopGo == InitStopGo /\ [][NextStored]_vars

\* samples logged every 0.1 s at 60 or 66 mph; a sample at light throttle
\* and 35 mpg passes the tests on the sample itself, one at 50 % throttle
\* does not
OptimalKinds ==
    { [BlankRow(0) EXCEPT !.speed_mph = k[1], !.throttle_position_pct = k[2],
                          !.instant_mpg = k[3]]
      : k \in { <<Some(60), Some(20), Some(35)>>,
                <<Some(66), Some(20), Some(35)>>,
                <<Some(60), Some(50), Some(35)>> } }

OptimalGaps == {1}

InitOptimal == InitStored(OptimalKinds, OptimalGaps, MaxOptimalSamples)

SpecOptimal == InitOptimal /\ [][NextStored]_vars

\* the speed varies over the bounds of the speed-range buckets
SpeedKinds ==
    { [BlankRow(0) EXCEPT !.speed_mph = v]
      : v \in {None, Some(-1), Some(0), Some(2), Some(35), Some(55),
                Some(150)} }

SpeedGaps == {1, 2}

InitSpeed == InitStored(SpeedKinds, SpeedGaps, MaxSpeedSamples)

SpecSpeed == InitSpeed /\ [][NextStored]_vars

\* the store after parse_and_store has committed one of the files
InitUploaded(Files) ==
    /\ \E rows \in Files :
          /\ csv_rows = rows
          /\ telemetry = ParseRows(rows)
    /\ trip_stats = TripStatistics(telemetry)
    /\ advanced = NotAsked
    /\ trip = NewTrip
    /\ driving_events = <<>>
    /\ returned_events = <<>>
    /\ next_event_id = 0
    /\ pc = "calc"
    /\ calc_runs = 0
    /\ detect_runs = 0
    /\ first_run = NoTrip
    /\ seen = NotRead

\* the cells of a row of a file that logs the throttle: the throttle cell is
\* blank or holds a reading, 0 % among them
ThrottleCells ==
    [vehicle_speed : {Some(30)},
     gps_speed : {None},
     engine_rpm : {Some(800)},
     absolute_throttle_position :
         {None, Some(0), Some(29), Some(30), Some(59), Some(60), Some(79),
          Some(80)},
     instant_fuel_economy : {None},
     fuel_rate : {None},
     acceleration : {None},
     cruise_control_vehicle_speed : {Missing}]

InitThrottle == InitUploaded(CsvFilesOf(ThrottleCells, MaxThrottleRows))

SpecThrottle == InitThrottle /\ [][NextStored]_vars

\* long trips logged every 0.1 s: the throttle is constant or alternates, the
\* speed is constant, rises steadily or rises and falls, and the first
\* rows may lack the throttle reading
CorrThrottle == {"constant", "alternating"}
CorrSpeed == {"constant", "ramp", "sawtooth"}

CorrSample(i, throttle, speed, blank) ==
    [BlankRow(i - 1) EXCEPT
       !.throttle_position_pct =
           IF i <= blank THEN None
           ELSE IF throttle = "alternating" /\ i % 2 = 0 THEN Some(40)
           ELSE Some(20),
       !.speed_mph =
           IF speed = "constant" THEN Some(30)
           ELSE IF speed = "ramp" THEN Some(30 + i)
           ELSE Some(30 + 10 * (i % 3))]

InitCorr ==
    /\ \E n \in 1..MaxCorrSamples, throttle \in CorrThrottle,
          speed \in CorrSpeed, blank \in 0..2 :
          telemetry = [i \in 1..n |-> CorrSample(i, throttle, speed, blank)]
    /\ csv_rows = <<>>
    /\ trip_stats = TripStatistics(telemetry)
    /\ advanced = NotAsked
    /\ trip = NewTrip
    /\ driving_events = <<>>
    /\ returned_events = <<>>
    /\ next_event_id = 0
    /\ pc = "calc"
    /\ calc_runs = 0
    /\ detect_runs = 0
    /\ first_run = NoTrip
    /\ seen = NotRead

SpecCorr == InitCorr /\ [][GetAdvancedAnalytics]_vars

----
(* Claims about the store and the handlers, checked under Spec *)

\* the events of a list without their ids
StripIds(events) == [i \in 1..Len(events) |-> [events[i] EXCEPT !.id = 0]]

\* C1: once an analytics run has completed, whatever the number of runs,
\* the DrivingEvents stored for the trip are exactly the events one run
\* detects over the trip's samples, each once.
C1_EventsReplaced ==
    (pc = "idle" /\ detect_runs >= 1)
        => StripIds(driving_events) = DetectedEvents(telemetry)

\* C2: a reader never sees the aggregates of a run whose events are not yet
\* inserted (or the reverse), nor a Trip row with only part of one run's six
\* analytics fields.
C2_AtomicPublication ==
    seen.read =>
        /\ seen.calc_runs = seen.detect_runs \/ DetectedEvents(telemetry) = <<>>
        /\ seen.trip \in {NewTrip, UpdatedTrip(NewTrip, telemetry)}

\* C4: after two or more calculate_all runs over unchanged samples the six
\* analytics fields are those the first run stored.
C4_AggregatorIdempotent ==
    calc_runs >= 1 => trip = first_run

\* a second run has committed over a trip whose fields are not trivial
C4_Witness ==
    /\ calc_runs >= 2
    /\ Val(trip.distance_miles) > 0
    /\ Val(trip.moving_time_seconds) > 0
    /\ trip.avg_fuel_economy_mpg # None
    /\ trip.total_fuel_used_gal # None

----
(* Claims about the Trip Aggregator, checked under SpecAgg and SpecFuel *)

RECURSIVE SumIdx(_, _, _)
\* F(lo) + ... + F(hi)
SumIdx(F(_), lo, hi) == IF lo > hi THEN 0 ELSE F(lo) + SumIdx(F, lo + 1, hi)

Prefix(s, k) == SubSeq(s, 1, k)

\* the gap before sample i (i >= 2)
GapBefore(s, i) == s[i].time - s[i - 1].time

\* effective speed: GPS speed if present, else OBD-reported speed
EffectiveSpeed(p) ==
    IF p.gps_speed_mph # None THEN p.gps_speed_mph ELSE p.speed_mph

\* idle: effective speed below 2.0 mph and engine_rpm > 0
SampleIsIdle(p) ==
    /\ EffectiveSpeed(p) # None
    /\ Val(EffectiveSpeed(p)) < 2
    /\ p.engine_rpm # None
    /\ Val(p.engine_rpm) > 0

\* effective speed below 2.0 mph with engine_rpm zero or missing
SampleIsEngineOff(p) ==
    /\ EffectiveSpeed(p) # None
    /\ Val(EffectiveSpeed(p)) < 2
    /\ (p.engine_rpm = None \/ Val(p.engine_rpm) <= 0)

\* first samples of the maximal idle runs among the samples lo..Len(s)
IdleRunStarts(s, lo) ==
    { a \in lo..Len(s) :
        SampleIsIdle(s[a]) /\ (a = lo \/ ~SampleIsIdle(s[a - 1])) }

\* last sample of the maximal idle run that starts at a
IdleRunEnd(s, a) ==
    CHOOSE b \in a..Len(s) :
        /\ \A k \in a..b : SampleIsIdle(s[k])
        /\ (b = Len(s) \/ ~SampleIsIdle(s[b + 1]))

\* idle runs of the samples after the first whose gaps add up to 3.0 s or more
StopsOf(s) ==
    Cardinality({ a \in IdleRunStarts(s, 2) :
                    s[IdleRunEnd(s, a)].time - s[a - 1].time >= 30 })

IdleGapsOf(s) ==
    SumIdx(LAMBDA i : IF SampleIsIdle(s[i]) THEN GapBefore(s, i) ELSE 0,
           2, Len(s))

EngineOffGapsOf(s) ==
    SumIdx(LAMBDA i : IF SampleIsEngineOff(s[i]) THEN GapBefore(s, i) ELSE 0,
           2, Len(s))

MovingGapsOf(s) ==
    SumIdx(LAMBDA i : IF ~SampleIsIdle(s[i]) /\ ~SampleIsEngineOff(s[i])
                      THEN GapBefore(s, i) ELSE 0,
           2, Len(s))

SpanOf(s) == s[Len(s)].time - s[1].time

\* idle from the first sample for exactly 3.0 s, then moving to the end
HeldThreeSecondsThenMoving(s) ==
    \E m \in 2..(Len(s) - 1) :
        /\ \A k \in 1..m : SampleIsIdle(s[k])
        /\ s[m].time - s[1].time = 30
        /\ \A k \in (m + 1)..Len(s) :
              EffectiveSpeed(s[k]) # None /\ Val(EffectiveSpeed(s[k])) >= 2

\* C5: stop_count is the number of maximal idle runs whose accumulated gaps
\* reach 3.0 s, after every prefix of the samples (so a run is counted at the
\* sample where it reaches 3.0 s and not again); idle held exactly 3.0 s then
\* motion gives stop_count 1 and idle_time_seconds 3.0.
C5_StopCount ==
    pc # "calc" =>
        /\ trip.stop_count = Some(StopsOf(telemetry))
        /\ \A k \in 1..Len(telemetry) :
              _calculate_idle_and_stops(Prefix(telemetry, k)).stop_count
                  = StopsOf(Prefix(telemetry, k))
        /\ HeldThreeSecondsThenMoving(telemetry) =>
              /\ trip.stop_count = Some(1)
              /\ trip.idle_time_seconds = Some(30)

\* calculate_all has run over idle held exactly 3.0 s, then motion
C5_Witness ==
    /\ pc # "calc"
    /\ HeldThreeSecondsThenMoving(telemetry)
    /\ trip.stop_count = Some(1)

DistanceOf(s) ==
    SumIdx(LAMBDA i : IF s[i].speed_mph # None
                      THEN Val(s[i].speed_mph) * GapBefore(s, i) ELSE 0,
           2, Len(s))

\* C7: distance_miles is the sum of later.speed_mph times the gap over the
\* consecutive pairs whose later sample has a speed; at constant speed S it is
\* S times the span of the trip.
C7_Distance ==
    pc # "calc" =>
        /\ trip.distance_miles = Some(DistanceOf(telemetry))
        /\ \A S \in {0, 2, 30} :
              (\A i \in 1..Len(telemetry) : telemetry[i].speed_mph = Some(S))
                  => trip.distance_miles = Some(S * SpanOf(telemetry))

\* calculate_all has run over samples of which a later one lacks a speed
C7_Witness ==
    /\ pc # "calc"
    /\ Len(telemetry) >= 3
    /\ telemetry[2].speed_mph = None
    /\ telemetry[3].speed_mph = Some(30)
    /\ Val(trip.distance_miles) > 0

\* the positive instant_mpg readings, in order
PositiveMpg(s) ==
    LET F[i \in 0..Len(s)] ==
            IF i = 0 THEN <<>>
            ELSE IF s[i].instant_mpg # None /\ Val(s[i].instant_mpg) > 0
                 THEN Append(F[i - 1], Val(s[i].instant_mpg))
                 ELSE F[i - 1]
    IN  F[Len(s)]

FuelOf(s) ==
    SumIdx(LAMBDA i : IF s[i].fuel_rate_gal_hr # None
                      THEN Val(s[i].fuel_rate_gal_hr) * GapBefore(s, i) ELSE 0,
           2, Len(s))

\* instant_mpg alternates between 20 and 30 over an even number of samples
Alternates20And30(s) ==
    /\ Len(s) % 2 = 0
    /\ \E first \in {20, 30} :
          \A i \in 1..Len(s) :
              s[i].instant_mpg
                  = Some(IF i % 2 = 1 THEN first ELSE 50 - first)

\* C8: avg_fuel_economy_mpg is the plain mean of the positive instant_mpg
\* readings (null without any; 25 for 20 and 30 alternating), and
\* total_fuel_used_gal is the sum of fuel rate times gap over the pairs whose
\* later sample has a fuel rate, null when that sum is not positive.
C8_FuelEconomy ==
    pc # "calc" =>
        LET mpg == PositiveMpg(telemetry)
            avg == trip.avg_fuel_economy_mpg
        IN  /\ mpg = <<>> => avg = None
            /\ mpg # <<>> =>
                  /\ avg # None
                  /\ avg[1] * Len(mpg) = avg[2] * SumSeq(mpg)
            /\ Alternates20And30(telemetry) => avg = <<25, 1>>
            /\ trip.total_fuel_used_gal
                  = IF FuelOf(telemetry) > 0
                    THEN Some(FuelOf(telemetry)) ELSE None

\* calculate_all has run over 20 and 30 alternating, with a fuel rate logged
C8_Witness ==
    /\ pc # "calc"
    /\ Alternates20And30(telemetry)
    /\ trip.avg_fuel_economy_mpg = <<25, 1>>
    /\ trip.total_fuel_used_gal # None

----
(* Claims about the Event Detector, checked under SpecAccel, SpecIdle and   *)
(* SpecEvents                                                               *)

\* the events of a list whose type is in types, in list order
EventsOfTypes(events, types) ==
    SelectSeq(events, LAMBDA e : e.event_type \in types)

AccelTypes == {"hard_accel", "hard_brake"}
IdleTypes == {"idle_start", "idle_end"}

\* what C9 expects of a reading a (hundredths of g): <<type, severity>> or <<>>
ExpectedAccel(a) ==
    IF a > 35
    THEN <<"hard_accel",
           IF a > 50 THEN "high" ELSE IF a > 40 THEN "medium" ELSE "low">>
    ELSE IF a < -45
    THEN <<"hard_brake",
           IF a < -60 THEN "high" ELSE IF a < -50 THEN "medium" ELSE "low">>
    ELSE <<>>

\* <<time, type, severity>> of the events C9 expects for the samples
ExpectedAccelEvents(s) ==
    LET F[i \in 0..Len(s)] ==
            IF i = 0 THEN <<>>
            ELSE IF s[i].acceleration_g # None
                    /\ ExpectedAccel(Val(s[i].acceleration_g)) # <<>>
                 THEN Append(F[i - 1],
                             <<s[i].time>>
                               \o ExpectedAccel(Val(s[i].acceleration_g)))
                 ELSE F[i - 1]
    IN  F[Len(s)]

\* <<time, type, severity>> of the acceleration events of a list
AccelEventsIn(events) ==
    LET es == EventsOfTypes(events, AccelTypes)
    IN  [i \in 1..Len(es) |->
            <<es[i].event_time, es[i].event_type, Val(es[i].severity)>>]

\* C9: the acceleration detector emits one event for each sample with
\* acceleration_g > 0.35 (hard_accel) or < -0.45 (hard_brake), with the strict
\* severity boundaries 0.5/0.4 and -0.6/-0.5, and none for any other sample;
\* 0.51 is high, 0.45 medium, 0.36 low, and 0.34, 0.35, -0.45 give no event.
C9_AccelerationEvents ==
    pc = "idle" =>
        /\ AccelEventsIn(returned_events) = ExpectedAccelEvents(telemetry)
        /\ \A i \in 1..Len(telemetry) :
              LET a == telemetry[i].acceleration_g
                  mine == { e \in {returned_events[k] : k \in 1..Len(returned_events)} :
                              e.event_type \in AccelTypes
                              /\ e.event_time = telemetry[i].time }
              IN  /\ a \in {None, Some(34), Some(35), Some(-45)} => mine = {}
                  /\ a = Some(51) =>
                        \E e \in mine : e.event_type = "hard_accel"
                                         /\ e.severity = Some("high")
                  /\ a = Some(45) =>
                        \E e \in mine : e.event_type = "hard_accel"
                                         /\ e.severity = Some("medium")
                  /\ a = Some(36) =>
                        \E e \in mine : e.event_type = "hard_accel"
                                         /\ e.severity = Some("low")

\* detect_events has run over consecutive qualifying samples and a sample
\* exactly on a threshold
C9_Witness ==
    /\ pc = "idle"
    /\ Len(telemetry) = 3
    /\ telemetry[1].acceleration_g = Some(51)
    /\ telemetry[2].acceleration_g = Some(-46)
    /\ telemetry[3].acceleration_g = Some(35)
    /\ Len(returned_events) = 2

\* <<type, duration>> of the events C10 expects for the samples a..Len(s):
\* a pair for each maximal idle run that a later non-idle sample ends and
\* that lasted 5.0 s or more from its first to its last sample
RECURSIVE ExpectedIdleEvents(_, _)
ExpectedIdleEvents(s, a) ==
    IF a > Len(s) THEN <<>>
    ELSE IF a \notin IdleRunStarts(s, 1) THEN ExpectedIdleEvents(s, a + 1)
    ELSE LET b == IdleRunEnd(s, a)
             d == s[b].time - s[a].time
         IN  (IF b < Len(s) /\ d >= 50
              THEN << <<"idle_start", d>>, <<"idle_end", d>> >>
              ELSE <<>>)
               \o ExpectedIdleEvents(s, b + 1)

\* <<type, duration>> of the idle events of a list
IdleEventsIn(events) ==
    LET es == EventsOfTypes(events, IdleTypes)
    IN  [i \in 1..Len(es) |->
            <<es[i].event_type, Val(es[i].duration_seconds)>>]

\* C10: for each maximal idle run ended by a non-idle sample the idle
\* detector emits one idle_start/idle_end pair if the run lasted 5.0 s or more
\* and nothing if less, both events carrying that duration; a run still open
\* at the last sample emits nothing.
C10_IdleEvents ==
    pc = "idle" =>
        IdleEventsIn(returned_events) = ExpectedIdleEvents(telemetry, 1)

\* detect_events has run over a run of 5.1 s that motion ended (one pair) and
\* an idle last sample (nothing)
C10_Witness ==
    /\ pc = "idle"
    /\ Len(telemetry) = 4
    /\ SampleIsIdle(telemetry[1])
    /\ SampleIsIdle(telemetry[2])
    /\ telemetry[2].time - telemetry[1].time = 51
    /\ ~SampleIsIdle(telemetry[3])
    /\ SampleIsIdle(telemetry[4])
    /\ IdleEventsIn(returned_events)
          = << <<"idle_start", 51>>, <<"idle_end", 51>> >>

\* C3: the list the Event Detector returns is ordered by event_time: for
\* every pair of positions i < j, event_time[i] <= event_time[j], across the
\* three detectors combined.
C3_TimeOrdered ==
    \A i, j \in 1..Len(returned_events) :
        i < j => returned_events[i].event_time <= returned_events[j].event_time

----
(* Claims about the trip summary, checked under Spec *)

\* C16: in the summary of an analyzed trip idle_percentage is null only when
\* duration_seconds is 0; with duration_seconds > 0 it equals
\* idle_time_seconds / duration_seconds * 100, the value 0 included.
C16_IdlePercentage ==
    (seen.read /\ seen.trip.idle_time_seconds # None) =>
        /\ seen.idle_percentage = None => trip_stats.duration_seconds = 0
        /\ trip_stats.duration_seconds > 0 =>
              /\ seen.idle_percentage # None
              /\ seen.idle_percentage[1] * trip_stats.duration_seconds
                    = seen.idle_percentage[2]
                        * Val(seen.trip.idle_time_seconds) * 100

\* C17: in the summary efficiency_score is null if and only if
\* avg_fuel_economy_mpg is absent; when present the score equals
\* avg_fuel_economy_mpg / 30 * 100 whatever the trip's other fields.
C17_EfficiencyScore ==
    seen.read =>
        /\ seen.efficiency_score = None
              <=> seen.trip.avg_fuel_economy_mpg = None
        /\ seen.trip.avg_fuel_economy_mpg # None =>
              seen.efficiency_score[1] * seen.trip.avg_fuel_economy_mpg[2] * 30
                = seen.efficiency_score[2]
                    * seen.trip.avg_fuel_economy_mpg[1] * 100

\* the hard_brake and hard_accel events among the stored events
HardEventsStored ==
    Cardinality({ i \in 1..Len(driving_events) :
                    driving_events[i].event_type
                        \in {"hard_brake", "hard_accel"} })

\* C18: in the summary driving_score is null if and only if duration_seconds
\* is 0; otherwise it is max(0, 100 - 10 * hard events * 60 /
\* duration_seconds) over the stored hard_brake and hard_accel events, so it
\* lies in [0,100] and is 100 when there are no hard events.
C18_DrivingScore ==
    seen.read =>
        /\ seen.driving_score = None <=> trip_stats.duration_seconds = 0
        /\ seen.detect_runs = detect_runs => seen.hard_events = HardEventsStored
        /\ trip_stats.duration_seconds # 0 =>
              LET score == seen.driving_score
                  wanted == 100 * trip_stats.duration_seconds
                              - 6000 * seen.hard_events
              IN  /\ score[2] > 0
                  /\ score[1] * trip_stats.duration_seconds
                        = score[2] * (IF wanted > 0 THEN wanted ELSE 0)
                  /\ 0 <= score[1] /\ score[1] <= 100 * score[2]
                  /\ seen.hard_events = 0 => score = <<100, 1>>

\* a summary read a trip of 3.0 s whose two stored hard events bring the
\* score down to 0
C18_Witness ==
    /\ seen.read
    /\ trip_stats.duration_seconds = 30
    /\ seen.hard_events >= 1
    /\ seen.driving_score = <<0, 1>>

----
(* Claims about cruise control, checked under SpecCruise *)

\* cruise-active as the Event Detector reads a sample: status "Yes", or a set
\* speed that is present and not zero
DetectorCruiseActive(p) ==
    \/ p.sensors.status_of_the_cruise_control_no_or_yes = Text("Yes")
    \/ p.sensors.cruise_control_vehicle_speed \notin {Missing, Number(0), Text("")}

\* the samples at which cruise-active goes from false to true
EngageSamples(s) ==
    { i \in 1..Len(s) :
        DetectorCruiseActive(s[i]) /\ (i = 1 \/ ~DetectorCruiseActive(s[i - 1])) }

\* the samples at which cruise-active goes from true to false
DisengageSamples(s) ==
    { i \in 2..Len(s) :
        ~DetectorCruiseActive(s[i]) /\ DetectorCruiseActive(s[i - 1]) }

\* <<time, type, duration>> of the events C11 expects, in sample order
ExpectedCruiseEvents(s) ==
    LET F[i \in 0..Len(s)] ==
            IF i = 0 THEN <<>>
            ELSE IF i \in EngageSamples(s)
            THEN Append(F[i - 1], <<s[i].time, "cruise_engage", None>>)
            ELSE IF i \in DisengageSamples(s)
            THEN LET j == Max({ k \in EngageSamples(s) : k < i })
                 IN  Append(F[i - 1],
                            <<s[i].time, "cruise_disengage",
                              Some(s[i].time - s[j].time)>>)
            ELSE F[i - 1]
    IN  F[Len(s)]

\* <<time, type, duration>> of the cruise events of a list
CruiseEventsIn(events) ==
    LET es == EventsOfTypes(events, {"cruise_engage", "cruise_disengage"})
    IN  [i \in 1..Len(es) |->
            <<es[i].event_time, es[i].event_type, es[i].duration_seconds>>]

\* C11: the cruise detector emits cruise_engage exactly at the samples where
\* cruise-active goes false to true (false before the first sample) and
\* cruise_disengage exactly where it goes true to false, whatever the length
\* of the engagement, and a cruise_disengage carries as duration_seconds its
\* sample's timestamp minus that of the most recent cruise_engage sample.
C11_CruiseEdges ==
    pc = "idle" =>
        CruiseEventsIn(returned_events) = ExpectedCruiseEvents(telemetry)

\* detect_events has run over two engagements, the second 0.1 s long
C11_Witness ==
    /\ pc = "idle"
    /\ Len(telemetry) = 4
    /\ EngageSamples(telemetry) = {1, 3}
    /\ DisengageSamples(telemetry) = {2, 4}
    /\ telemetry[4].time - telemetry[3].time = 1
    /\ Len(CruiseEventsIn(returned_events)) = 4

\* cruise-active as session reconstruction reads a sample: status 1.0 or
\* "Yes", or a positive set speed
SessionCruiseActive(p) ==
    \/ p.sensors.status_of_the_cruise_control_no_or_yes
          \in {Number(1), Text("Yes")}
    \/ /\ p.sensors.cruise_control_vehicle_speed.kind = "number"
       /\ p.sensors.cruise_control_vehicle_speed.number > 0

\* the last sample of the maximal cruise-active run that starts at sample a
RECURSIVE CruiseRunEnd(_, _)
CruiseRunEnd(s, a) ==
    IF a < Len(s) /\ SessionCruiseActive(s[a + 1])
    THEN CruiseRunEnd(s, a + 1) ELSE a

\* <<start, end, duration>> of the sessions C12 expects for samples a..Len(s)
RECURSIVE ExpectedSessions(_, _)
ExpectedSessions(s, a) ==
    IF a > Len(s) THEN <<>>
    ELSE IF ~SessionCruiseActive(s[a]) THEN ExpectedSessions(s, a + 1)
    ELSE LET b == CruiseRunEnd(s, a)
             duration == s[b].time - s[a].time
         IN  (IF duration > 50
              THEN << <<s[a].time, s[b].time, duration>> >>
              ELSE <<>>)
               \o ExpectedSessions(s, b + 1)

\* C12: session reconstruction lists a session for a maximal cruise-active
\* run if and only if the run lasts more than 5 seconds, a run still active
\* at the last sample included; session_count is the length of the list,
\* total_cruise_time the sum of the listed durations, and
\* avg_session_duration is total_cruise_time / session_count (0 without
\* sessions).
C12_CruiseSessions ==
    advanced.status = "ok" =>
        LET result == advanced.cruise_control
            expected == ExpectedSessions(telemetry, 1)
            total == SumSeq([i \in 1..Len(expected) |-> expected[i][3]])
        IN  /\ [i \in 1..Len(result.sessions) |->
                   <<result.sessions[i].start_time,
                     result.sessions[i].end_time,
                     result.sessions[i].duration>>] = expected
            /\ result.session_count = Len(expected)
            /\ result.total_cruise_time = total
            /\ result.avg_session_duration[1] * Len(expected)
                  = result.avg_session_duration[2] * total
            /\ expected = <<>> => result.avg_session_duration = <<0, 1>>

\* the advanced analytics ran over a run of 5.1 s that is still active at
\* the last sample and was listed
C12_Witness ==
    /\ advanced.status = "ok"
    /\ Len(telemetry) = 3
    /\ \A i \in 1..3 : SessionCruiseActive(telemetry[i])
    /\ telemetry[3].time = 51
    /\ advanced.cruise_control.session_count = 1
    /\ advanced.cruise_control.sessions[1].duration = 51

----
(* Claims about the speed-range breakdown, checked under SpecSpeed *)

\* the gap time of the pairs whose later sample has a speed in [lo, hi)
TimeWithSpeedIn(s, lo, hi) ==
    SumIdx(LAMBDA i : IF /\ s[i].speed_mph # None
                         /\ lo <= Val(s[i].speed_mph)
                         /\ Val(s[i].speed_mph) < hi
                      THEN GapBefore(s, i) ELSE 0,
           2, Len(s))

----
(* Claims about the throttle patterns, checked under SpecThrottle *)

\* the throttle readings of the uploaded rows, in row order
ThrottleReadings(rows) ==
    LET with == SelectSeq(rows,
                          LAMBDA row : row.absolute_throttle_position # None)
    IN  [i \in 1..Len(with) |-> Val(with[i].absolute_throttle_position)]

\* how many of the readings lie in [lo, hi)
ReadingsIn(readings, lo, hi) ==
    Cardinality({ i \in 1..Len(readings) :
                    lo <= readings[i] /\ readings[i] < hi })

\* C14: throttle pattern analysis counts every sample that has a throttle
\* reading, a reading of exactly 0 included, in exactly one of gentle (< 30),
\* moderate (< 60), aggressive (< 80) and very_aggressive (>= 80); the four
\* percentages are taken over the number of readings and sum to 100, and
\* aggressiveness_score = (30 * moderate + 70 * aggressive + 100 *
\* very_aggressive) / number of readings lies in [0,100].
C14_ThrottlePatterns ==
    (advanced.status = "ok" /\ ThrottleReadings(csv_rows) # <<>>) =>
        LET readings == ThrottleReadings(csv_rows)
            n == Len(readings)
            gentle == ReadingsIn(readings, 0, 30)
            moderate == ReadingsIn(readings, 30, 60)
            aggressive == ReadingsIn(readings, 60, 80)
            very_aggressive == ReadingsIn(readings, 80, 101)
            r == advanced.throttle_patterns
        IN  /\ ~r.empty
            /\ r.counts = [gentle |-> gentle, moderate |-> moderate,
                           aggressive |-> aggressive,
                           very_aggressive |-> very_aggressive]
            /\ r.distribution.gentle_pct[1] * n
                  = r.distribution.gentle_pct[2] * gentle * 100
            /\ r.distribution.moderate_pct[1] * n
                  = r.distribution.moderate_pct[2] * moderate * 100
            /\ r.distribution.aggressive_pct[1] * n
                  = r.distribution.aggressive_pct[2] * aggressive * 100
            /\ r.distribution.very_aggressive_pct[1] * n
                  = r.distribution.very_aggressive_pct[2] * very_aggressive * 100
            /\ r.aggressiveness_score[1] * n
                  = r.aggressiveness_score[2]
                      * (30 * moderate + 70 * aggressive + 100 * very_aggressive)
            /\ 0 <= r.aggressiveness_score[1]
            /\ r.aggressiveness_score[1] <= 100 * r.aggressiveness_score[2]

----
(* Claims about the speed/throttle correlation, checked under SpecCorr *)

\* the samples that have both a throttle reading and a speed
WithThrottleAndSpeed(s) ==
    SelectSeq(s, LAMBDA p : p.throttle_position_pct # None /\ p.speed_mph # None)

\* the throttle levels paired with a speed change all agree, or the speed
\* changes all agree
ZeroVariance(both) ==
    \/ \A i, j \in 2..Len(both) :
          both[i].throttle_position_pct = both[j].throttle_position_pct
    \/ \A i, j \in 2..Len(both) :
          Val(both[i].speed_mph) - Val(both[i - 1].speed_mph)
            = Val(both[j].speed_mph) - Val(both[j - 1].speed_mph)

\* C15: the correlation returns the empty result whenever fewer than 10
\* samples have both throttle and speed; with 10 or more it returns a
\* coefficient and at most 100 sample pairs, and when the throttle series or
\* the speed-change series has zero variance the coefficient is 0 and no
\* division by zero occurs.
C15_Correlation ==
    advanced.status = "ok" =>
        LET both == WithThrottleAndSpeed(telemetry)
            r == advanced.correlation
        IN  /\ Len(both) < 10 => r = EmptyResult
            /\ Len(both) >= 10 =>
                  /\ ~r.empty
                  /\ Len(r.sample_points) <= 100
                  /\ Len(r.sample_points) = Min({100, Len(both) - 1})
                  /\ r.correlation_coefficient.denom_t_sq > 0
                  /\ r.correlation_coefficient.denom_s_sq > 0
                  /\ ZeroVariance(both) => r.correlation_coefficient.num = 0

\* the correlation ran over 102 samples with a constant throttle: the
\* coefficient is 0 and 100 of the 101 pairs are returned
C15_Witness ==
    /\ advanced.status = "ok"
    /\ Len(WithThrottleAndSpeed(telemetry)) = 102
    /\ ZeroVariance(WithThrottleAndSpeed(telemetry))
    /\ advanced.correlation.correlation_coefficient.num = 0
    /\ Len(advanced.correlation.sample_points) = 100

----
(* Claims about the composition of the analyses, checked under SpecCruiseText *)

\* C19: the five behavioral analyses are isolated when run together: once an
\* advanced-analytics request has been answered, the results of the analyses
\* that did not raise are in the response, whether or not the cruise-control
\* analysis raised.
C19_AnalysesIsolated ==
    advanced # NotAsked =>
        /\ advanced.status = "ok"
        /\ advanced.speed_ranges = analyze_speed_ranges(telemetry)
        /\ advanced.throttle_patterns = analyze_throttle_patterns(telemetry)
        /\ advanced.fuel_insights = analyze_fuel_efficiency_insights(telemetry)
        /\ advanced.correlation = get_speed_throttle_correlation(telemetry)

----
(* Claims about a trip without samples, checked under SpecEmpty *)

\* the result of a fuel-insight analysis that found nothing
NoInsights ==
    [heavy_throttle_events |-> [count |-> 0, events |-> <<>>],
     optimal_cruising |-> [count |-> 0, avg_mpg |-> <<0, 1>>, total_time |-> 0],
     stop_and_go |-> [event_count |-> 0, estimated_time |-> 0]]

\* C20: for a trip with zero samples every analysis completes and gives its
\* no-data result: the six analytics fields of the Trip stay null, no event
\* is returned or stored, the speed-range breakdown is zero-filled, the
\* cruise and fuel-insight results are zero/empty, and throttle patterns and
\* correlation are the empty result.
C20_EmptyTrip ==
    telemetry = <<>> =>
        /\ trip = NewTrip
        /\ returned_events = <<>>
        /\ driving_events = <<>>
        /\ advanced # NotAsked =>
              /\ advanced.status = "ok"
              /\ \A i \in 1..Len(RangeNames) :
                    advanced.speed_ranges[RangeNames[i]]
                      = [time |-> 0, distance |-> 0, percentage |-> <<0, 1>>]
              /\ advanced.throttle_patterns = EmptyResult
              /\ advanced.cruise_control
                    = [total_cruise_time |-> 0, session_count |-> 0,
                       sessions |-> <<>>, avg_session_duration |-> <<0, 1>>]
              /\ advanced.fuel_insights = NoInsights
              /\ advanced.correlation = EmptyResult

\* calculate_all, detect_events and the advanced analyses have all run over
\* a trip without samples
C20_Witness ==
    /\ telemetry = <<>>
    /\ pc = "idle"
    /\ detect_runs = 1
    /\ advanced.status = "ok"

----
(* Claims about the effective speed, checked under Spec *)

\* the effective speed a CSV row reports: its GPS speed reading if the cell
\* holds one, the value 0 included, else its vehicle speed
RowEffectiveSpeed(row) ==
    IF row.gps_speed # None THEN row.gps_speed
    ELSE SpeedColumn(row.vehicle_speed)

\* the row reports an effective speed below 2.0 mph and a running engine
RowIsIdle(row) ==
    /\ Val(RowEffectiveSpeed(row)) < 2
    /\ row.engine_rpm # None
    /\ Val(row.engine_rpm) > 0

\* the gaps before the rows that report idle
RowIdleGaps(rows) ==
    SumIdx(LAMBDA i : IF RowIsIdle(rows[i])
                      THEN rows[i].time - rows[i - 1].time ELSE 0,
           2, Len(rows))

\* C21: the effective speed of a sample is its GPS speed whenever one was
\* read, a reading of 0 included, and its vehicle speed only otherwise: once
\* calculate_all has run, idle_time_seconds is the sum of the gaps before the
\* rows with a GPS speed below 2.0 mph (or, without one, a vehicle speed below
\* 2.0 mph) and engine_rpm > 0, whatever their vehicle speed.
C21_GpsSpeedPreferred ==
    calc_runs >= 1 => trip.idle_time_seconds = Some(RowIdleGaps(csv_rows))

----
(* Claims about the idle pairs, checked under SpecIdle *)

\* C22: every idle_start the idle detector emits is followed by its
\* idle_end; idle_start carries the timestamp and position of the first
\* sample of an idle run, idle_end those of the run's last idle sample, and
\* the time between the two events is the duration_seconds both carry.
C22_IdlePairSpan ==
    pc = "idle" =>
        LET es == EventsOfTypes(returned_events, IdleTypes)
        IN  \A i \in 1..Len(es) :
              es[i].event_type = "idle_start" =>
                /\ i < Len(es)
                /\ es[i + 1].event_type = "idle_end"
                /\ \E a \in IdleRunStarts(telemetry, 1) :
                      LET first == telemetry[a]
                          last == telemetry[IdleRunEnd(telemetry, a)]
                      IN  /\ es[i].event_time = first.time
                          /\ es[i].latitude = first.latitude
                          /\ es[i].longitude = first.longitude
                          /\ es[i + 1].event_time = last.time
                          /\ es[i + 1].latitude = last.latitude
                          /\ es[i + 1].longitude = last.longitude
                /\ es[i + 1].event_time - es[i].event_time
                      = Val(es[i].duration_seconds)
                /\ es[i + 1].duration_seconds = es[i].duration_seconds

----
(* Claims about the deciding sample of the speed-range breakdown, checked   *)
(* under SpecSpeed                                                          *)

\* the gap time of the pairs whose earlier sample has a speed in [lo, hi)
TimeWithEarlierSpeedIn(s, lo, hi) ==
    SumIdx(LAMBDA i : IF /\ s[i - 1].speed_mph # None
                         /\ lo <= Val(s[i - 1].speed_mph)
                         /\ Val(s[i - 1].speed_mph) < hi
                      THEN GapBefore(s, i) ELSE 0,
           2, Len(s))

\* speed * gap over the pairs whose later sample has a speed in [lo, hi)
DistanceWithSpeedIn(s, lo, hi) ==
    SumIdx(LAMBDA i : IF /\ s[i].speed_mph # None
                         /\ lo <= Val(s[i].speed_mph)
                         /\ Val(s[i].speed_mph) < hi
                      THEN Val(s[i].speed_mph) * GapBefore(s, i) ELSE 0,
           2, Len(s))

\* C23 as claimed: the bucket that receives the time of a consecutive pair
\* is decided by the speed of the earlier sample of the pair.
C23_EarlierSampleDecides ==
    advanced.status = "ok" =>
        \A name \in DOMAIN SpeedRanges :
            advanced.speed_ranges[name].time
              = TimeWithEarlierSpeedIn(telemetry, SpeedRanges[name].min,
                                       SpeedRanges[name].max)

\* C23 as amended: the bucket that receives the time and the distance of a
\* consecutive pair is decided by the speed of the later sample of the pair,
\* whatever the speed of the earlier one.
C23_LaterSampleDecides ==
    advanced.status = "ok" =>
        \A name \in DOMAIN SpeedRanges :
            /\ advanced.speed_ranges[name].time
                  = TimeWithSpeedIn(telemetry, SpeedRanges[name].min,
                                    SpeedRanges[name].max)
            /\ advanced.speed_ranges[name].distance
                  = DistanceWithSpeedIn(telemetry, SpeedRanges[name].min,
                                        SpeedRanges[name].max)

\* the breakdown ran over one pair, from a city speed to a highway speed: its
\* gap went to highway
C23_Witness ==
    /\ advanced.status = "ok"
    /\ Len(telemetry) = 2
    /\ telemetry[1].speed_mph = Some(2)
    /\ telemetry[2].speed_mph = Some(55)
    /\ advanced.speed_ranges["highway"].time = GapBefore(telemetry, 2)
    /\ advanced.speed_ranges["city"].time = 0

----
(* Claims about stop-and-go traffic, checked under SpecStopGo *)

\* the sample has a speed below 5 mph
IsSlow(p) == p.speed_mph # None /\ Val(p.speed_mph) < 5

\* the sample has a speed of 5 mph or more
IsFast(p) == p.speed_mph # None /\ Val(p.speed_mph) >= 5

\* <<a, j>> for each transition out of a sub-5-mph run: j is a sample at
\* 5 mph or more, a the first sample of the run of slow samples before it
StopAndGoTransitions(s) ==
    { t \in (1..Len(s)) \X (1..Len(s)) :
        /\ t[1] < t[2]
        /\ IsFast(s[t[2]])
        /\ \A k \in t[1]..(t[2] - 1) : ~IsFast(s[k])
        /\ IsSlow(s[t[1]])
        /\ \A k \in 1..(t[1] - 1) :
              IsSlow(s[k]) => \E m \in (k + 1)..(t[1] - 1) : IsFast(s[m]) }

\* how long the run of a transition lasted: from its first sample to the
\* sample before the transition
RunLasted(s, t) == s[t[2] - 1].time - s[t[1]].time

\* C24 as claimed: one event is counted at each transition out of a
\* sub-5-mph run that lasted at least 2 seconds, exactly 2.0 s included.
C24_AtLeastTwoSeconds ==
    advanced.status = "ok" =>
        advanced.fuel_insights.stop_and_go.event_count
          = Cardinality({ t \in StopAndGoTransitions(telemetry) :
                            RunLasted(telemetry, t) >= 20 })

\* C24 as amended: one event is counted at each transition out of a
\* sub-5-mph run that lasted more than 2 seconds; a run of exactly 2.0 s or
\* less counts nothing, and estimated_time is event_count * 5 (seconds).
C24_MoreThanTwoSeconds ==
    advanced.status = "ok" =>
        LET r == advanced.fuel_insights.stop_and_go
        IN  /\ r.event_count
                  = Cardinality({ t \in StopAndGoTransitions(telemetry) :
                                    RunLasted(telemetry, t) > 20 })
            /\ r.estimated_time = r.event_count * 50

\* the analysis ran over a run of exactly 2.0 s and the sample that left it:
\* nothing was counted
C24_Witness ==
    /\ advanced.status = "ok"
    /\ Len(telemetry) = 3
    /\ IsSlow(telemetry[1])
    /\ IsSlow(telemetry[2])
    /\ telemetry[2].time - telemetry[1].time = 20
    /\ IsFast(telemetry[3])
    /\ advanced.fuel_insights.stop_and_go.event_count = 0

----
(* Claims about optimal cruising, checked under SpecOptimal *)

\* the speeds of the samples lo..hi that have one
SpeedsOf(s, lo, hi) ==
    { Val(s[k].speed_mph) : k \in { j \in lo..hi : s[j].speed_mph # None } }

\* sample i has speed in [50,70], throttle < 40 and instant_mpg > 30, and
\* the speeds of the next 5 samples, i+1 .. i+5, spread less than 5 mph
OptimalByNextFive(s, i) ==
    /\ s[i].speed_mph # None
    /\ 50 <= Val(s[i].speed_mph) /\ Val(s[i].speed_mph) <= 70
    /\ s[i].throttle_position_pct # None
    /\ Val(s[i].throttle_position_pct) < 40
    /\ s[i].instant_mpg # None
    /\ Val(s[i].instant_mpg) > 30
    /\ i + 5 <= Len(s)
    /\ SpeedsOf(s, i + 1, i + 5) # {}
    /\ Max(SpeedsOf(s, i + 1, i + 5)) - Min(SpeedsOf(s, i + 1, i + 5)) < 5

\* C25: the optimal-cruising samples are those with speed in [50,70],
\* throttle < 40, instant_mpg > 30 and a speed spread below 5 mph over the
\* next 5 samples (i+1 .. i+5); count is their number, avg_mpg the mean of
\* their instant_mpg (0 if none) and total_time is count * 0.1 s.
C25_OptimalCruising ==
    advanced.status = "ok" =>
        LET r == advanced.fuel_insights.optimal_cruising
            optimal == { i \in 1..Len(telemetry) :
                           OptimalByNextFive(telemetry, i) }
            mpg_sum == SumIdx(LAMBDA i : IF i \in optimal
                                         THEN Val(telemetry[i].instant_mpg)
                                         ELSE 0,
                              1, Len(telemetry))
        IN  /\ r.count = Cardinality(optimal)
            /\ r.avg_mpg = IF optimal # {}
                           THEN Fraction(mpg_sum, Cardinality(optimal))
                           ELSE <<0, 1>>
            /\ r.total_time = r.count * 1

----
(* Claims about the two cruise activation rules, checked under SpecCruiseFlag *)

\* the session lies inside a span from a cruise_engage event to the next
\* cruise event, or to the end when no cruise event follows
InsideEngagement(session, events) ==
    LET es == EventsOfTypes(events, {"cruise_engage", "cruise_disengage"})
    IN  \E k \in 1..Len(es) :
          /\ es[k].event_type = "cruise_engage"
          /\ es[k].event_time <= session.start_time
          /\ (k = Len(es) \/ session.end_time <= es[k + 1].event_time)

\* a sample of the session has the number 1.0 as its cruise status
HasNumericStatus(session, s) ==
    \E i \in 1..Len(s) :
        /\ session.start_time <= s[i].time
        /\ s[i].time <= session.end_time
        /\ s[i].sensors.status_of_the_cruise_control_no_or_yes = Number(1)

----
(* Claims relating the Aggregator to the idle detector, checked under       *)
(* SpecIdle                                                                 *)

\* C27: once calculate_all and detect_events have run over the same
\* samples, stop_count is at least the number of idle_start events: every
\* idle run that produced an idle pair was also counted as a stop.
C27_StopsCoverIdlePairs ==
    pc = "idle" =>
        Val(trip.stop_count) >= EventCount(returned_events, "idle_start")

\* both have run over an idle run of 5.1 s that motion ended: one stop and
\* one idle pair
C27_Witness ==
    /\ pc = "idle"
    /\ EventCount(returned_events, "idle_start") = 1
    /\ trip.stop_count = Some(1)
    /\ \E i \in 2..Len(telemetry) :
          /\ SampleIsIdle(telemetry[i - 1])
          /\ SampleIsIdle(telemetry[i])
          /\ GapBefore(telemetry, i) = 51

\* the duration_seconds of the idle_start events of a list, added up
IdlePairTime(events) ==
    LET starts == EventsOfTypes(events, {"idle_start"})
    IN  SumSeq([i \in 1..Len(starts) |-> Val(starts[i].duration_seconds)])

\* C28: once calculate_all and detect_events have run over the same
\* samples, idle_time_seconds is at least the sum of duration_seconds over
\* the idle_start events, and idle_time_seconds + moving_time_seconds is at
\* most the last timestamp minus the first.
C28_IdleTimeCoversPairs ==
    pc = "idle" =>
        /\ Val(trip.idle_time_seconds) >= IdlePairTime(returned_events)
        /\ Val(trip.idle_time_seconds) + Val(trip.moving_time_seconds)
              <= SpanOf(telemetry)

\* both have run over samples with an idle pair of 5.1 s, some moving time
\* and an engine-off sample, whose gap is in neither total
C28_Witness ==
    /\ pc = "idle"
    /\ IdlePairTime(returned_events) = 51
    /\ Val(trip.idle_time_seconds) >= 51
    /\ Val(trip.moving_time_seconds) > 0
    /\ Val(trip.idle_time_seconds) + Val(trip.moving_time_seconds)
          < SpanOf(telemetry)

----
(* Claims about the order of the cruise events, checked under SpecCruise *)

\* cruise_engage events less cruise_disengage events among the first k
\* cruise events of a list
OpenEngagements(events, k) ==
    LET es == SubSeq(EventsOfTypes(events, {"cruise_engage",
                                            "cruise_disengage"}), 1, k)
    IN  EventCount(es, "cruise_engage") - EventCount(es, "cruise_disengage")

\* C29: in the cruise detector's output cruise_engage and cruise_disengage
\* alternate, cruise_engage first: after every prefix the engages less the
\* disengages are 0 or 1, and at the end they are 1 exactly when the last
\* sample is cruise-active, the open engagement getting no disengage.
C29_CruiseEventsAlternate ==
    pc = "idle" =>
        LET es == EventsOfTypes(returned_events,
                                {"cruise_engage", "cruise_disengage"})
        IN  /\ \A k \in 1..Len(es) :
                  /\ OpenEngagements(returned_events, k) \in {0, 1}
                  /\ es[k].event_type = IF k % 2 = 1 THEN "cruise_engage"
                                        ELSE "cruise_disengage"
            /\ OpenEngagements(returned_events, Len(es)) = 1
                  <=> DetectorCruiseActive(telemetry[Len(telemetry)])

\* detect_events has run over an engagement that was left and a second one
\* still open at the last sample
C29_Witness ==
    /\ pc = "idle"
    /\ Len(EventsOfTypes(returned_events,
                         {"cruise_engage", "cruise_disengage"})) = 3
    /\ DetectorCruiseActive(telemetry[Len(telemetry)])

----
(* Claims relating the speed-range breakdown to the Aggregator, checked     *)
(* under SpecSpeed                                                          *)

\* every speed the samples have lies in [0,150)
SpeedsWithinBuckets(s) ==
    \A i \in 1..Len(s) :
        s[i].speed_mph # None =>
            0 <= Val(s[i].speed_mph) /\ Val(s[i].speed_mph) < 150

\* C30: once calculate_all and the speed-range breakdown have run over the
\* same samples, all with their speed in [0,150) or without one, the four
\* bucket distances add up to the Aggregator's distance_miles.
C30_BucketDistancesAddUp ==
    (calc_runs >= 1 /\ advanced.status = "ok"
       /\ SpeedsWithinBuckets(telemetry)) =>
        SumSeq([i \in 1..Len(RangeNames) |->
                   advanced.speed_ranges[RangeNames[i]].distance])
          = Val(trip.distance_miles)

\* both have run over three samples, a city pair and a highway pair, with a
\* positive distance in each of the two buckets
C30_Witness ==
    /\ calc_runs >= 1
    /\ advanced.status = "ok"
    /\ SpeedsWithinBuckets(telemetry)
    /\ Len(telemetry) = 3
    /\ advanced.speed_ranges["city"].distance > 0
    /\ advanced.speed_ranges["highway"].distance > 0
    /\ Val(trip.distance_miles)
          = advanced.speed_ranges["city"].distance
              + advanced.speed_ranges["highway"].distance

====
